---- MODULE Spec2Model ----
(***************************************************************************)
(* A model of two cores of CLgen:                                          *)
(*   - clgen/atomizer.py: Atomizer, CharacterAtomizer, GreedyAtomizer      *)
(*   - clgen/cldrive.py:  KernelPayload, KernelDriver (validate, profile)  *)
(*                                                                         *)
(* Characters are modelled by their Unicode code points, a text by the     *)
(* sequence of its code points (Python index k is TLA+ index k + 1), and   *)
(* an atom by the sequence of the code points of its string.               *)
(***************************************************************************)
EXTENDS Integers, Sequences, FiniteSets, TLC

VARIABLES
    \* ---- clgen/atomizer.py ----
    mode,       \* which entry point is exercised: "greedy", "char", "decode"
    vocab,      \* Atomizer.vocab: atom -> index
    decoder,    \* Atomizer.decoder: index -> atom
    lookup,     \* GreedyAtomizer.lookup: first character -> multichar atoms
    text,       \* the argument of atomize
    encoded,    \* the argument of deatomize
    i,          \* GreedyAtomizer.atomize: left anchor
    j,          \* GreedyAtomizer.atomize: trial right end
    indices,    \* GreedyAtomizer.atomize: the indices emitted so far
    emitted,    \* history: the vocabulary keys looked up by the emissions
    apc,        \* position in the atomizer code
    ret,        \* what atomize returned or raised
    decoded,    \* what deatomize returned or raised
    stage,      \* "atomize": a call of atomize on a given atomizer;
                \* "from_text": inside from_text; "induced": the atomizer
                \* from_text returned, run on its corpus
    tokens      \* GreedyAtomizer.from_text: c.tokenize(text)

VARIABLES
    \* ---- clgen/cldrive.py ----
    prototype,          \* driver.prototype.args: the argument descriptors
    size,               \* the parameter size of validate and profile
    entry,              \* the method or function called: "validate",
                        \* "profile", "construct", "kernel" or "file"
    must_validate,      \* the parameter must_validate of profile
    min_num_iterations, \* the parameter min_num_iterations of profile
    kern,               \* environment: what the compiled kernel does
    fault,              \* environment: the operation that fails, if any
    etime,              \* environment: the times of the events
    wgsizes,            \* driver._wgsizes
    transfers,          \* driver._transfers
    runtimes,           \* driver._runtimes
    pay,                \* the payload variables of validate and profile
    dpc,                \* position in validate and profile
    rpc,                \* position in __call__
    output,             \* __call__: output
    elapsed,            \* __call__: elapsed
    vresult,            \* how validate ended: "ok" or the exception raised
    result,             \* how the method called ended
    out,                \* the lines printed to out
    metaout,            \* the lines printed to metaout
    nalloc,             \* the number of cl.LocalMemory objects made so far
    ncreate,            \* the number of payload syntheses so far
    nrun,               \* the number of single-shots begun so far
    opencl,             \* environment: how init_opencl ends
    build,              \* environment: how cl.Program(ctx, src).build() ends
    nkernels,           \* environment: len(program.all_kernels())
    fatal_errors,       \* the parameter fatal_errors of kernel()
    cresult,            \* how KernelDriver.__init__ ended
    sys_stdout,         \* the lines kernel() printed to sys.stdout
    sys_stderr,         \* the lines kernel() and file() printed to
                        \* sys.stderr
    devtype,            \* the parameter devtype of kernel()
    filename,           \* the parameter filename of kernel()
    path,               \* the parameter path of file()
    pending,            \* file(): the kernels of the file that kernel()
                        \* is still to be called for
    kwargs,             \* file(): the keyword arguments given on to kernel()
    copied,             \* host_to_device, device_to_host: the number of
                        \* copies the loop under way has completed
    commands            \* history: what the single-shot under way, or the
                        \* last one, did with the queue, in order

avars == <<mode, vocab, decoder, lookup, text, encoded, i, j, indices,
           emitted, apc, ret, decoded, stage, tokens>>

dvars == <<prototype, size, entry, must_validate, min_num_iterations, kern,
           fault, etime, wgsizes, transfers, runtimes, pay, dpc, rpc, output,
           elapsed, vresult, result, out, metaout, nalloc, ncreate, nrun,
           opencl, build, nkernels, fatal_errors, cresult, sys_stdout,
           sys_stderr, devtype, filename, path, pending, kwargs, copied,
           commands>>

\* the variables of kernel(), of file() and of the construction of the
\* driver
kvars == <<opencl, build, nkernels, fatal_errors, cresult, sys_stdout,
           sys_stderr, devtype, filename, path, pending, kwargs>>

vars == <<avars, dvars>>

-----------------------------------------------------------------------------
(* Bounds of the model.                                                    *)

\* longest text given to atomize, longest index sequence given to deatomize
MaxLen == 4

\* largest payload size given to validate and profile, besides the default
MaxSize == 2

\* largest min_num_iterations given to profile, besides the default
MaxIterations == 2

\* a planned fault strikes one of the first MaxFaultAt payload syntheses or
\* single-shots
MaxFaultAt == 2

\* the hash seeds of the runs followed: PYTHONHASHSEED 0 .. MaxSeeds - 1
MaxSeeds == 3

\* a planned fault of a copy loop strikes one of its first MaxFaultCopy copies
MaxFaultCopy == 2

\* the most kernels a compiled program exposes
MaxKernels == 2

\* the most kernels clutil.get_cl_kernels finds in a file
MaxFileKernels == 2

\* a payload size beyond the cap of the workgroup size
LargeSize == 257

-----------------------------------------------------------------------------
(* Generic helpers.                                                        *)

Min(a, b) == IF a <= b THEN a ELSE b

Range(f) == {f[x] : x \in DOMAIN f}

RECURSIVE SeqsUpTo(_, _)
\* all sequences over S of length at most n
SeqsUpTo(S, n) ==
    IF n = 0 THEN {<<>>}
    ELSE LET shorter == SeqsUpTo(S, n - 1)
         IN  shorter \cup {Append(s, x) : s \in {t \in shorter : Len(t) = n - 1}, x \in S}

RECURSIVE Concat(_)
\* ''.join(atoms)
Concat(atoms) ==
    IF atoms = <<>> THEN <<>> ELSE Head(atoms) \o Concat(Tail(atoms))

\* Python's text[a:b] for 0 <= a, clipped at the end of the text
Slice(s, a, b) == SubSeq(s, a + 1, Min(b, Len(s)))

\* Python's x.startswith(p)
StartsWith(x, p) == Len(p) <= Len(x) /\ SubSeq(x, 1, Len(p)) = p

\* results of atomize and deatomize: a value, or the exception VocabError
NoResult == [kind |-> "none", val |-> <<>>]
Returned(v) == [kind |-> "ok", val |-> v]
VocabError == [kind |-> "VocabError", val |-> <<>>]

-----------------------------------------------------------------------------
(* The vocabularies the model is run on.                                   *)

\* the members of the set OPENCL_ATOMS, as code points, in the order of the
\* source text: the seeded multi-character atoms, then string.printable
OPENCL_ATOMS == <<
    <<32,32>>, <<95,95,97,115,115,101,114,116>>,
    <<95,95,97,116,116,114,105,98,117,116,101>>,
    <<95,95,98,117,105,108,116,105,110,95,97,115,116,121,112,101>>,
    <<95,95,99,108,99,95,102,97,98,115>>, <<95,95,99,108,99,95,102,109,97>>,
    <<95,95,99,111,110,115,116,97,110,116>>, <<95,95,103,108,111,98,97,108>>,
    <<95,95,105,110,108,105,110,101>>, <<95,95,107,101,114,110,101,108>>,
    <<95,95,108,111,99,97,108>>, <<95,95,112,114,105,118,97,116,101>>,
    <<95,95,114,101,97,100,95,111,110,108,121>>,
    <<95,95,114,101,97,100,95,119,114,105,116,101>>,
    <<95,95,119,114,105,116,101,95,111,110,108,121>>, <<42,47>>, <<47,42>>,
    <<47,47>>, <<97,98,115>>, <<97,108,105,103,110,97,115>>,
    <<97,108,105,103,110,111,102>>, <<97,116,111,109,105,99,95,97,100,100>>,
    <<97,117,116,111>>, <<98,97,114,114,105,101,114>>, <<98,111,111,108>>,
    <<98,114,101,97,107>>, <<99,97,115,101>>, <<99,104,97,114>>,
    <<99,108,97,109,112>>, <<99,111,109,112,108,101,120>>,
    <<99,111,110,115,116>>, <<99,111,110,115,116,97,110,116>>,
    <<99,111,110,116,105,110,117,101>>, <<100,101,102,97,117,108,116>>,
    <<100,101,102,105,110,101>>, <<100,101,102,105,110,101,100>>,
    <<100,111>>, <<100,111,117,98,108,101>>, <<101,108,105,102>>,
    <<101,108,115,101>>, <<101,110,100,105,102>>, <<101,110,117,109>>,
    <<101,114,114,111,114>>, <<101,118,101,110,116,95,116>>,
    <<101,120,116,101,114,110>>, <<102,97,98,115>>, <<102,97,108,115,101>>,
    <<102,108,111,97,116>>, <<102,111,114>>,
    <<103,101,116,95,103,108,111,98,97,108,95,105,100>>,
    <<103,101,116,95,103,108,111,98,97,108,95,115,105,122,101>>,
    <<103,101,116,95,108,111,99,97,108,95,105,100>>,
    <<103,101,116,95,108,111,99,97,108,95,115,105,122,101>>,
    <<103,101,116,95,110,117,109,95,103,114,111,117,112,115>>,
    <<103,108,111,98,97,108>>, <<103,111,116,111>>, <<104,97,108,102>>,
    <<105,102>>, <<105,102,100,101,102>>, <<105,102,110,100,101,102>>,
    <<105,109,97,103,101,49,100,95,97,114,114,97,121,95,116>>,
    <<105,109,97,103,101,49,100,95,98,117,102,102,101,114,95,116>>,
    <<105,109,97,103,101,49,100,95,116>>,
    <<105,109,97,103,101,50,100,95,97,114,114,97,121,95,116>>,
    <<105,109,97,103,101,50,100,95,116>>,
    <<105,109,97,103,101,51,100,95,116>>,
    <<105,109,97,103,105,110,97,114,121>>, <<105,110,99,108,117,100,101>>,
    <<105,110,108,105,110,101>>, <<105,110,116>>, <<105,110,116,111>>,
    <<107,101,114,110,101,108>>, <<108,105,110,101>>, <<108,111,99,97,108>>,
    <<108,111,110,103>>, <<110,111,114,101,116,117,114,110>>,
    <<112,114,97,103,109,97>>, <<112,114,105,118,97,116,101>>,
    <<113,117,97,100>>, <<114,101,97,100,95,111,110,108,121>>,
    <<114,101,97,100,95,119,114,105,116,101>>,
    <<114,101,103,105,115,116,101,114>>, <<114,101,115,116,114,105,99,116>>,
    <<114,101,116,117,114,110>>, <<115,97,109,112,108,101,114,95,116>>,
    <<115,104,111,114,116>>, <<115,104,117,102,102,108,101>>,
    <<115,105,103,110,101,100>>, <<115,105,122,101,95,116>>,
    <<115,105,122,101,111,102>>, <<115,113,114,116>>,
    <<115,116,97,116,105,99>>, <<115,116,114,117,99,116>>,
    <<115,119,105,116,99,104>>, <<116,114,117,101>>,
    <<116,121,112,101,100,101,102>>, <<117,51,50>>, <<117,99,104,97,114>>,
    <<117,105,110,116>>, <<117,108,111,110,103>>, <<117,110,100,101,102>>,
    <<117,110,105,111,110>>, <<117,110,115,105,103,110,101,100>>,
    <<118,111,105,100>>, <<118,111,108,97,116,105,108,101>>,
    <<119,104,105,108,101>>, <<119,105,100,101>>,
    <<119,114,105,116,101,95,111,110,108,121>>, <<48>>, <<49>>, <<50>>,
    <<51>>, <<52>>, <<53>>, <<54>>, <<55>>, <<56>>, <<57>>, <<97>>, <<98>>,
    <<99>>, <<100>>, <<101>>, <<102>>, <<103>>, <<104>>, <<105>>, <<106>>,
    <<107>>, <<108>>, <<109>>, <<110>>, <<111>>, <<112>>, <<113>>, <<114>>,
    <<115>>, <<116>>, <<117>>, <<118>>, <<119>>, <<120>>, <<121>>, <<122>>,
    <<65>>, <<66>>, <<67>>, <<68>>, <<69>>, <<70>>, <<71>>, <<72>>, <<73>>,
    <<74>>, <<75>>, <<76>>, <<77>>, <<78>>, <<79>>, <<80>>, <<81>>, <<82>>,
    <<83>>, <<84>>, <<85>>, <<86>>, <<87>>, <<88>>, <<89>>, <<90>>, <<33>>,
    <<34>>, <<35>>, <<36>>, <<37>>, <<38>>, <<39>>, <<40>>, <<41>>, <<42>>,
    <<43>>, <<44>>, <<45>>, <<46>>, <<47>>, <<58>>, <<59>>, <<60>>, <<61>>,
    <<62>>, <<63>>, <<64>>, <<91>>, <<92>>, <<93>>, <<94>>, <<95>>, <<96>>,
    <<123>>, <<124>>, <<125>>, <<126>>, <<32>>, <<9>>, <<10>>, <<13>>,
    <<11>>, <<12>>
>>

\* the characters "a", "b", "c" of the small vocabularies
SmallChars == {97, 98, 99}

\* the atoms the small vocabularies are drawn from, in index order:
\* "a", "b", "c", "ab", "aba", "abab", "bb"
AtomPool == << <<97>>, <<98>>, <<99>>, <<97,98>>, <<97,98,97>>,
               <<97,98,97,98>>, <<98,98>> >>

\* dict(zip(atoms, range(len(atoms)))) for the members of keys, taken in the
\* order of the sequence atoms
ZipRange(atoms, keys) ==
    [a \in keys |->
        LET p == CHOOSE k \in DOMAIN atoms : atoms[k] = a
        IN  Cardinality({q \in 1..(p - 1) : atoms[q] \in keys})]

\* OPENCL_ATOMS is a set of strings. The order in which a set of strings is
\* iterated depends on the hashes of the strings, which the interpreter
\* randomises for every run unless PYTHONHASHSEED is set: every order is
\* possible. An order gives, for each place of the iteration, the position
\* in the sequence above of the atom iterated there.
SetOrders ==
    {o \in [DOMAIN OPENCL_ATOMS -> DOMAIN OPENCL_ATOMS] :
        {o[k] : k \in DOMAIN o} = DOMAIN OPENCL_ATOMS}

\* the orders in which CPython 3.11 iterates OPENCL_ATOMS with
\* PYTHONHASHSEED 0, 1, 2 and 3
HashSeedOrders == <<
    <<
       100, 203, 173, 84, 165, 13, 118, 187, 157, 27, 114, 169, 119, 202,
       62, 85, 133, 167, 197, 50, 95, 124, 188, 20, 22, 109, 113, 42, 134,
       34, 105, 35, 87, 205, 61, 192, 111, 68, 3, 150, 198, 110, 153, 172,
       80, 176, 191, 30, 207, 208, 17, 23, 52, 185, 204, 25, 19, 6, 121,
       123, 71, 37, 56, 163, 145, 10, 33, 89, 4, 146, 36, 103, 147, 201,
       46, 44, 151, 54, 125, 21, 108, 77, 129, 24, 55, 186, 200, 67, 174,
       11, 122, 5, 29, 168, 58, 149, 120, 81, 115, 180, 7, 194, 101, 137,
       28, 126, 93, 104, 127, 43, 57, 199, 144, 136, 65, 183, 156, 128, 79,
       195, 175, 196, 158, 179, 12, 162, 193, 143, 39, 16, 154, 90, 131,
       112, 178, 92, 41, 170, 106, 94, 1, 38, 60, 135, 96, 139, 64, 182,
       14, 59, 45, 73, 72, 78, 130, 91, 141, 160, 75, 66, 15, 32, 155, 161,
       181, 117, 184, 74, 99, 140, 107, 76, 70, 116, 18, 142, 53, 63, 26,
       88, 48, 82, 190, 148, 102, 159, 40, 2, 86, 98, 132, 31, 152, 171,
       69, 164, 83, 177, 51, 9, 49, 97, 206, 8, 138, 47, 189, 166
    >>,
    <<
       73, 34, 13, 86, 199, 45, 103, 197, 112, 12, 70, 185, 83, 160, 95,
       68, 36, 29, 144, 168, 195, 164, 63, 57, 128, 23, 33, 14, 30, 136,
       41, 147, 175, 104, 52, 142, 182, 203, 90, 77, 98, 110, 21, 96, 100,
       76, 92, 119, 55, 101, 166, 87, 120, 174, 10, 75, 183, 173, 133, 135,
       38, 122, 125, 158, 189, 82, 51, 161, 65, 134, 178, 6, 190, 207, 107,
       39, 19, 91, 25, 171, 194, 137, 66, 81, 84, 67, 126, 4, 208, 64, 192,
       138, 157, 184, 60, 129, 3, 61, 8, 24, 196, 156, 149, 155, 162, 32,
       181, 22, 11, 123, 177, 180, 31, 198, 9, 62, 105, 145, 139, 153, 206,
       118, 193, 132, 146, 130, 141, 74, 94, 49, 1, 176, 188, 115, 200,
       179, 71, 48, 131, 16, 47, 89, 165, 204, 159, 202, 111, 121, 113,
       124, 127, 7, 97, 154, 27, 20, 50, 106, 18, 187, 109, 35, 43, 54,
       201, 143, 42, 78, 108, 191, 205, 59, 170, 5, 44, 148, 2, 72, 163,
       99, 88, 102, 80, 28, 85, 169, 56, 186, 150, 114, 69, 40, 116, 151,
       17, 26, 93, 140, 53, 117, 79, 167, 46, 15, 152, 37, 58, 172
    >>,
    <<
       63, 129, 33, 52, 153, 181, 72, 79, 38, 166, 207, 201, 106, 124, 92,
       192, 168, 29, 25, 4, 11, 83, 46, 208, 73, 20, 65, 6, 30, 84, 157,
       10, 89, 57, 60, 118, 139, 67, 110, 115, 182, 78, 198, 96, 7, 171,
       80, 108, 126, 49, 51, 70, 149, 91, 85, 93, 75, 87, 131, 53, 45, 159,
       176, 186, 44, 31, 130, 175, 82, 37, 138, 47, 94, 18, 112, 66, 101,
       117, 140, 2, 173, 196, 199, 191, 162, 137, 77, 109, 114, 111, 105,
       146, 95, 22, 193, 50, 64, 172, 179, 121, 161, 170, 103, 158, 55, 68,
       202, 9, 169, 81, 113, 98, 204, 183, 23, 104, 27, 184, 8, 58, 127,
       24, 61, 54, 41, 150, 165, 180, 123, 167, 69, 34, 122, 206, 107, 59,
       125, 132, 36, 14, 5, 164, 12, 203, 43, 128, 156, 160, 197, 32, 136,
       142, 99, 148, 21, 205, 19, 1, 86, 154, 17, 190, 88, 3, 151, 134, 13,
       62, 152, 120, 187, 48, 15, 76, 144, 119, 28, 194, 90, 116, 178, 141,
       102, 200, 35, 133, 143, 26, 40, 185, 163, 74, 174, 145, 177, 42,
       100, 135, 97, 147, 155, 195, 39, 16, 189, 56, 71, 188
    >>,
    <<
       27, 39, 12, 55, 28, 72, 155, 103, 136, 187, 140, 40, 181, 182, 188,
       33, 121, 22, 73, 71, 67, 177, 125, 51, 70, 193, 62, 9, 86, 49, 5,
       169, 194, 128, 60, 156, 81, 115, 201, 23, 84, 118, 141, 19, 130,
       126, 146, 43, 192, 150, 202, 94, 91, 78, 48, 26, 124, 4, 191, 139,
       96, 108, 197, 138, 18, 184, 168, 16, 50, 66, 41, 10, 24, 13, 35,
       122, 180, 196, 11, 207, 208, 14, 69, 25, 63, 29, 178, 82, 162, 79,
       88, 37, 158, 65, 90, 167, 159, 77, 53, 166, 17, 173, 114, 95, 117,
       135, 119, 133, 105, 204, 68, 54, 129, 179, 171, 100, 93, 189, 190,
       172, 200, 34, 145, 170, 6, 85, 147, 20, 64, 198, 7, 2, 112, 183,
       113, 165, 36, 99, 3, 132, 151, 144, 97, 52, 75, 142, 44, 107, 57,
       30, 131, 89, 137, 154, 32, 143, 161, 59, 80, 186, 148, 21, 46, 174,
       134, 127, 45, 31, 111, 38, 74, 175, 152, 157, 42, 102, 149, 98, 164,
       185, 83, 123, 106, 153, 199, 205, 58, 120, 87, 163, 110, 61, 101,
       116, 8, 206, 56, 47, 92, 195, 1, 109, 203, 15, 176, 76, 104, 160
    >> >>

\* the orders of the runs the model follows: those of the first MaxSeeds
\* hash seeds
FollowedOrders ==
    {HashSeedOrders[k] : k \in 1..Min(MaxSeeds, Len(HashSeedOrders))}

\* the atoms in the iteration order o
IterationOrder(atoms, o) == [k \in DOMAIN o |-> atoms[o[k]]]

\* the seeded vocabulary built in GreedyAtomizer.from_text in a run that
\* iterates OPENCL_ATOMS in the order o
OpenCLVocab(o) ==
    ZipRange(IterationOrder(OPENCL_ATOMS, o), Range(OPENCL_ATOMS))

\* the seeded vocabularies a run can build, {OpenCLVocab(o) : o \in
\* SetOrders}: the numberings of the atoms with 0..N-1
OpenCLVocabs ==
    {v \in [Range(OPENCL_ATOMS) -> 0..(Len(OPENCL_ATOMS) - 1)] :
        {v[a] : a \in DOMAIN v} = 0..(Len(OPENCL_ATOMS) - 1)}

\* the seeded vocabularies of the runs the model follows
FollowedVocabs == {OpenCLVocab(o) : o \in FollowedOrders}

SmallVocabs == {ZipRange(AtomPool, K) : K \in SUBSET Range(AtomPool)}

\* "__kernel void f", "  x", "/* x */", "auto"
SeededTexts == {
    <<95,95,107,101,114,110,101,108,32,118,111,105,100,32,102>>,
    <<32,32,120>>,
    <<47,42,32,120,32,42,47>>,
    <<97,117,116,111>> }

\* the characters of the corpora given to GreedyAtomizer.from_text: "a", "b",
\* "s", " ", "/", and a character that is not in string.printable
CorpusChars == {97, 98, 115, 32, 47, 233}

-----------------------------------------------------------------------------
(* Atomizer.__init__ and GreedyAtomizer.__init__                           *)

\* self.decoder = dict((val, key) for key, val in vocab.items())
Decoder(v) == [n \in Range(v) |-> CHOOSE a \in DOMAIN v : v[a] = n]

\* a variant of Multichars that takes an atom for multi-character only from
\* three characters on
MulticharsFromThree(v) == {a \in DOMAIN v : Len(a) > 2}

\* multichars = set(k for k in self.atoms if len(k) > 1)
Multichars(v) == {a \in DOMAIN v : Len(a) > 1}

\* self.lookup = dict((c, [a for a in multichars if a[0] == c]) ...)
Lookup(v) ==
    [c \in {a[1] : a \in Multichars(v)} |-> {a \in Multichars(v) : a[1] = c}]

-----------------------------------------------------------------------------
(* GreedyAtomizer.atomize, one action per path through one iteration of    *)
(* the outer loop and of the inner (shrinking) loop.                       *)

\* text[i], the character at the anchor
Anchor == text[i + 1]

\* self.lookup.get(text[i]) is a non-empty list
IsHead(c) == c \in DOMAIN lookup

\* a variant of CanExtend that stops one short of the end of the text
CanExtendWithinText ==
    /\ j < Len(text)
    /\ \E x \in lookup[Anchor] : StartsWith(x, Slice(text, i, j))

\* j <= len(text) and any(x.startswith(text[i:j]) for x in self.lookup[text[i]])
CanExtend ==
    /\ j <= Len(text)
    /\ \E x \in lookup[Anchor] : StartsWith(x, Slice(text, i, j))

\* any(x == text[i:j] for x in self.lookup[text[i]])
IsMatch == \E x \in lookup[Anchor] : x = Slice(text, i, j)

\* a variant of AnchorAfterMatch that leaves the anchor where it is
AnchorStaysAfterMatch(a, b) == a

\* a variant of AnchorAfterMatch that resumes on the last character of the
\* atom emitted
AnchorOnLastCharacter(a, b) == b - 1

\* the anchor after a multi-character atom text[i:j] was emitted: i = j
AnchorAfterMatch(a, b) == b

\* a variant of TrialEndAfterEmit that advances the trial end by one
TrialEndAfterEmitByOne(b) == b + 1

\* the trial right end after an emission: j = j + 2
TrialEndAfterEmit(b) == b + 2

\* a variant of TrialEndAfterMiss that shrinks by two
TrialEndAfterMissByTwo(b) == b - 2

\* the trial right end after text[i:j] was found to be no atom: j -= 1
TrialEndAfterMiss(b) == b - 1


\* a variant of Emit that passes over a key that is not in the vocabulary
EmitKnownOnly(key, newi, newj) ==
    /\ indices' = IF key \in DOMAIN vocab THEN Append(indices, vocab[key])
                  ELSE indices
    /\ emitted' = IF key \in DOMAIN vocab THEN Append(emitted, key)
                  ELSE emitted
    /\ i' = newi
    /\ j' = newj
    /\ apc' = "scan"
    /\ ret' = ret

\* indices.append(self.vocab[key]) followed by the updates of i and j; the
\* KeyError of a key that is not in the vocabulary leaves the loop and is
\* raised as VocabError
Emit(key, newi, newj) ==
    IF key \in DOMAIN vocab
    THEN /\ indices' = Append(indices, vocab[key])
         /\ emitted' = Append(emitted, key)
         /\ i' = newi
         /\ j' = newj
         /\ apc' = "scan"
         /\ ret' = ret
    ELSE /\ ret' = VocabError
         /\ apc' = "atomized"
         /\ UNCHANGED <<indices, emitted, i, j>>

\* while i < len(text): the loop ends and np.array(indices) is returned
ScanReturn ==
    /\ mode = "greedy" /\ apc = "scan"
    /\ ~(i < Len(text))
    /\ ret' = Returned(indices)
    /\ apc' = "atomized"
    /\ UNCHANGED <<mode, stage, tokens, vocab, decoder, lookup, text, encoded, i, j,
                   indices, emitted, decoded>>
    /\ UNCHANGED dvars

\* text[i] heads no multi-character atom: emit the character
ScanPlain ==
    /\ mode = "greedy" /\ apc = "scan"
    /\ i < Len(text)
    /\ ~IsHead(Anchor)
    /\ Emit(<<Anchor>>, i + 1, TrialEndAfterEmit(j))
    /\ UNCHANGED <<mode, stage, tokens, vocab, decoder, lookup, text, encoded, decoded>>
    /\ UNCHANGED dvars

\* text[i:j] is a prefix of a multi-character atom: j += 1
ScanExtend ==
    /\ mode = "greedy" /\ apc = "scan"
    /\ i < Len(text)
    /\ IsHead(Anchor)
    /\ CanExtend
    /\ j' = j + 1
    /\ UNCHANGED <<mode, stage, tokens, vocab, decoder, lookup, text, encoded, i,
                   indices, emitted, apc, ret, decoded>>
    /\ UNCHANGED dvars

\* extension is over: enter the inner loop, while j > i + 1
ScanShrink ==
    /\ mode = "greedy" /\ apc = "scan"
    /\ i < Len(text)
    /\ IsHead(Anchor)
    /\ ~CanExtend
    /\ apc' = "shrink"
    /\ UNCHANGED <<mode, stage, tokens, vocab, decoder, lookup, text, encoded, i, j,
                   indices, emitted, ret, decoded>>
    /\ UNCHANGED dvars

\* text[i:j] is a multi-character atom: emit it, i = j, j = j + 2, break
ShrinkMatch ==
    /\ mode = "greedy" /\ apc = "shrink"
    /\ j > i + 1
    /\ IsMatch
    /\ Emit(Slice(text, i, j), AnchorAfterMatch(i, j), TrialEndAfterEmit(j))
    /\ UNCHANGED <<mode, stage, tokens, vocab, decoder, lookup, text, encoded, decoded>>
    /\ UNCHANGED dvars

\* text[i:j] is no atom: j -= 1
ShrinkStep ==
    /\ mode = "greedy" /\ apc = "shrink"
    /\ j > i + 1
    /\ ~IsMatch
    /\ j' = TrialEndAfterMiss(j)
    /\ UNCHANGED <<mode, stage, tokens, vocab, decoder, lookup, text, encoded, i,
                   indices, emitted, apc, ret, decoded>>
    /\ UNCHANGED dvars

\* the inner loop ran out (its else branch): emit the character text[i]
ShrinkFallback ==
    /\ mode = "greedy" /\ apc = "shrink"
    /\ ~(j > i + 1)
    /\ Emit(<<Anchor>>, i + 1, TrialEndAfterEmit(j))
    /\ UNCHANGED <<mode, stage, tokens, vocab, decoder, lookup, text, encoded, decoded>>
    /\ UNCHANGED dvars

-----------------------------------------------------------------------------
(* CharacterAtomizer.atomize                                               *)

\* np.array(list(map(lambda x: self.vocab[x], text))), KeyError -> VocabError
CharAtomizeResult(v, t) ==
    IF \A k \in DOMAIN t : <<t[k]>> \in DOMAIN v
    THEN Returned([k \in DOMAIN t |-> v[<<t[k]>>]])
    ELSE VocabError

CharAtomize ==
    /\ mode = "char" /\ apc = "scan"
    /\ ret' = CharAtomizeResult(vocab, text)
    /\ apc' = "atomized"
    /\ UNCHANGED <<mode, stage, tokens, vocab, decoder, lookup, text, encoded, i, j,
                   indices, emitted, decoded>>
    /\ UNCHANGED dvars

-----------------------------------------------------------------------------
(* Atomizer.deatomize                                                      *)

\* ''.join(list(map(lambda x: self.decoder[x], encoded))), KeyError -> VocabError
DeatomizeResult(d, e) ==
    IF \A k \in DOMAIN e : e[k] \in DOMAIN d
    THEN Returned(Concat([k \in DOMAIN e |-> d[e[k]]]))
    ELSE VocabError

\* deatomize(atomize(text)), when atomize returned
DeatomizeAtomized ==
    /\ mode \in {"greedy", "char"} /\ apc = "atomized"
    /\ stage # "from_text"
    /\ ret.kind = "ok"
    /\ decoded' = DeatomizeResult(decoder, ret.val)
    /\ encoded' = ret.val
    /\ apc' = "done"
    /\ UNCHANGED <<mode, stage, tokens, vocab, decoder, lookup, text, i, j, indices,
                   emitted, ret>>
    /\ UNCHANGED dvars

\* deatomize(encoded) for an index sequence given by the caller
DeatomizeGiven ==
    /\ mode = "decode" /\ apc = "scan"
    /\ decoded' = DeatomizeResult(decoder, encoded)
    /\ apc' = "done"
    /\ UNCHANGED <<mode, stage, tokens, vocab, decoder, lookup, text, encoded, i, j,
                   indices, emitted, ret>>
    /\ UNCHANGED dvars

\* an atomizer constructed over vocabulary v, about to run entry point m
AtomizerInit(m, v, t, e) ==
    /\ mode = m
    /\ vocab = v
    /\ decoder = Decoder(v)
    /\ lookup = Lookup(v)
    /\ text = t
    /\ encoded = e
    /\ i = 0
    /\ j = 2
    /\ indices = <<>>
    /\ emitted = <<>>
    /\ apc = "scan"
    /\ ret = NoResult
    /\ decoded = NoResult
    /\ stage = "atomize"
    /\ tokens = <<>>

-----------------------------------------------------------------------------
(* GreedyAtomizer.from_text and CharacterAtomizer.from_text                *)

\* Python's a < b on strings: the order of the code points at the first
\* difference, a proper prefix being the smaller
StrLess(a, b) ==
    \E k \in 1..(Min(Len(a), Len(b)) + 1) :
        /\ SubSeq(a, 1, k - 1) = SubSeq(b, 1, k - 1)
        /\ k <= Len(b)
        /\ k <= Len(a) => a[k] < b[k]

RECURSIVE Sorted(_)
\* sorted(S) for a set of strings
Sorted(S) ==
    IF S = {} THEN <<>>
    ELSE LET m == CHOOSE x \in S : \A y \in S \ {x} : StrLess(x, y)
         IN  <<m>> \o Sorted(S \ {m})

RECURSIVE FirstSeen(_)
\* the distinct members of a sequence, in the order of their first occurrence
FirstSeen(s) ==
    IF s = <<>> THEN <<>>
    ELSE LET r == FirstSeen(SubSeq(s, 1, Len(s) - 1))
         IN  IF s[Len(s)] \in Range(r) THEN r ELSE Append(r, s[Len(s)])

\* Atomizer.tokenize: list(map(lambda x: self.decoder[x], indices))
Tokenize(d, idx) == [k \in DOMAIN idx |-> d[idx[k]]]

\* a variant of SortedTokens that keeps the tokens in the order of their
\* first occurrence
UnsortedTokens(toks) == FirstSeen(toks)

\* sorted(list(set(c.tokenize(text))))
SortedTokens(toks) == Sorted(Range(toks))

\* a variant of GreedyFromTextVocab that keeps the multi-character tokens
\* only
GreedyFromTextVocabOfMultichars(toks) ==
    LET m == {x \in Range(toks) : Len(x) > 1}
    IN  ZipRange(Sorted(m), m)

\* vocab = dict(zip(tokens, range(len(tokens))))
GreedyFromTextVocab(toks) == ZipRange(SortedTokens(toks), Range(toks))

\* the decoder of the seeded atomizer c = GreedyAtomizer(opencl_vocab) in a
\* run that iterates OPENCL_ATOMS in the order o
OpenCLDecoder(o) == Decoder(OpenCLVocab(o))

\* the seeded atomizer c = GreedyAtomizer(opencl_vocab) in a run that
\* iterates OPENCL_ATOMS in the order o
SeededAtomizer(o) ==
    [vocab |-> OpenCLVocab(o), decoder |-> OpenCLDecoder(o),
     lookup |-> Lookup(OpenCLVocab(o))]

\* the seeded atomizers a run can make, {SeededAtomizer(o) : o \in
\* SetOrders}: a seeded vocabulary, its inverse, and the table of the
\* multi-character atoms, which is the same for every numbering
SeededAtomizers ==
    {c \in [vocab : OpenCLVocabs,
            decoder : [0..(Len(OPENCL_ATOMS) - 1) -> Range(OPENCL_ATOMS)],
            lookup : {Lookup(OpenCLVocab(HashSeedOrders[1]))}] :
        c.decoder = Decoder(c.vocab)}

\* the seeded atomizers of the runs the model follows
FollowedAtomizers == {SeededAtomizer(o) : o \in FollowedOrders}

\* GreedyAtomizer.from_text after c.atomize(text) returned: the tokens are
\* decoded and sorted and the induced atomizer is constructed and returned;
\* it is then given its corpus to atomize. (A VocabError of c.atomize leaves
\* from_text.)
GreedyFromText ==
    /\ mode = "greedy" /\ stage = "from_text" /\ apc = "atomized"
    /\ ret.kind = "ok"
    /\ LET toks == Tokenize(decoder, ret.val)
           v == GreedyFromTextVocab(toks)
       IN  /\ tokens' = toks
           /\ vocab' = v
           /\ decoder' = Decoder(v)
           /\ lookup' = Lookup(v)
    /\ stage' = "induced"
    /\ i' = 0
    /\ j' = 2
    /\ indices' = <<>>
    /\ emitted' = <<>>
    /\ apc' = "scan"
    /\ ret' = NoResult
    /\ UNCHANGED <<mode, text, encoded, decoded>>
    /\ UNCHANGED dvars

\* Counter(text)[c]
Count(t, c) == Cardinality({k \in DOMAIN t : t[k] = c})

RECURSIVE SortedByCount(_, _)
\* sorted(counter.items(), key=lambda x: -x[1]): the sort is stable, and the
\* counter lists the characters in the order of their first occurrence
SortedByCount(chars, t) ==
    IF chars = <<>> THEN <<>>
    ELSE LET k == CHOOSE k \in DOMAIN chars :
                    \A m \in DOMAIN chars :
                        \/ Count(t, chars[m]) < Count(t, chars[k])
                        \/ Count(t, chars[m]) = Count(t, chars[k]) /\ m >= k
         IN  <<chars[k]>>
             \o SortedByCount(SubSeq(chars, 1, k - 1)
                              \o SubSeq(chars, k + 1, Len(chars)), t)

\* atoms, _ = zip(*count_pairs): the one-character atoms, most frequent first
CountPairAtoms(t) ==
    LET chars == SortedByCount(FirstSeen(t), t)
    IN  [k \in DOMAIN chars |-> <<chars[k]>>]

\* vocab = dict(zip(atoms, range(len(atoms))))
CharFromTextVocab(t) == ZipRange(CountPairAtoms(t), Range(CountPairAtoms(t)))

\* the exception of unpacking zip(*count_pairs) when count_pairs is empty
ValueError == [kind |-> "ValueError", val |-> <<>>]

\* CharacterAtomizer.from_text(text); the atomizer returned is then given
\* its corpus to atomize
CharFromText ==
    /\ mode = "char" /\ stage = "from_text" /\ apc = "from_text"
    /\ IF text = <<>>
       THEN /\ ret' = ValueError
            /\ apc' = "raised"
            /\ UNCHANGED <<vocab, decoder, stage>>
       ELSE /\ vocab' = CharFromTextVocab(text)
            /\ decoder' = Decoder(CharFromTextVocab(text))
            /\ stage' = "induced"
            /\ apc' = "scan"
            /\ ret' = ret
    /\ UNCHANGED <<mode, tokens, lookup, text, encoded, i, j, indices,
                   emitted, decoded>>
    /\ UNCHANGED dvars

\* a call of from_text on the corpus t: GreedyAtomizer.from_text has made the
\* seeded atomizer c and is about to tokenize, CharacterAtomizer.from_text
\* (which makes no seeded atomizer) is about to count
FromTextInit(m, t, c) ==
    /\ mode = m
    /\ stage = "from_text"
    /\ tokens = <<>>
    /\ vocab = IF m = "greedy" THEN c.vocab ELSE <<>>
    /\ decoder = IF m = "greedy" THEN c.decoder ELSE <<>>
    /\ lookup = IF m = "greedy" THEN c.lookup ELSE <<>>
    /\ text = t
    /\ encoded = <<>>
    /\ i = 0
    /\ j = 2
    /\ indices = <<>>
    /\ emitted = <<>>
    /\ apc = IF m = "greedy" THEN "scan" ELSE "from_text"
    /\ ret = NoResult
    /\ decoded = NoResult

-----------------------------------------------------------------------------
(* clgen/cldrive.py: values, kernel arguments and payloads.                *)
(*                                                                         *)
(* A number held in a buffer is modelled in units of 1/Scale, so that the  *)
(* values of np.random.rand, which lie in [0, 1), are representable: with  *)
(* Scale = 2 the model value 3 is 1.5. NaN is the float that differs from  *)
(* every float, itself included.                                           *)

\* model units per 1.0
Scale == 2

\* the float NaN
NaN == 0 - 1

\* the model value of the number n
Num(n) == n * Scale

\* e1 != e2 on numpy scalars
ElemNe(e1, e2) == e1 = NaN \/ e2 = NaN \/ e1 # e2

\* numpy's itemsize of a dtype, in bytes
Itemsize(dtype) ==
    CASE dtype = "int32" -> 4
      [] dtype = "float32" -> 4
      [] dtype = "int64" -> 8
      [] dtype = "float64" -> 8

\* array.astype(dtype), dtype(value): an integer dtype truncates
Astype(v, dtype) ==
    IF dtype \in {"int32", "int64"} THEN (v \div Scale) * Scale ELSE v

\* clutil.KernelArg(string): the descriptors of the arguments the model's
\* prototypes are made of
KernelArg(string) ==
    CASE string = "__global int* a" ->
            [string |-> string, is_pointer |-> TRUE, is_local |-> FALSE,
             is_const |-> FALSE, vector_width |-> 1, numpy_type |-> "int32"]
      [] string = "__global float* a" ->
            [string |-> string, is_pointer |-> TRUE, is_local |-> FALSE,
             is_const |-> FALSE, vector_width |-> 1, numpy_type |-> "float32"]
      [] string = "__global int4* a" ->
            [string |-> string, is_pointer |-> TRUE, is_local |-> FALSE,
             is_const |-> FALSE, vector_width |-> 4, numpy_type |-> "int32"]
      [] string = "__global const int* b" ->
            [string |-> string, is_pointer |-> TRUE, is_local |-> FALSE,
             is_const |-> TRUE, vector_width |-> 1, numpy_type |-> "int32"]
      [] string = "__global const float* b" ->
            [string |-> string, is_pointer |-> TRUE, is_local |-> FALSE,
             is_const |-> TRUE, vector_width |-> 1, numpy_type |-> "float32"]
      [] string = "__local float* c" ->
            [string |-> string, is_pointer |-> TRUE, is_local |-> TRUE,
             is_const |-> FALSE, vector_width |-> 1, numpy_type |-> "float32"]
      [] string = "const int n" ->
            [string |-> string, is_pointer |-> FALSE, is_local |-> FALSE,
             is_const |-> TRUE, vector_width |-> 1, numpy_type |-> "int32"]
      [] string = "int n" ->
            [string |-> string, is_pointer |-> FALSE, is_local |-> FALSE,
             is_const |-> FALSE, vector_width |-> 1, numpy_type |-> "int32"]

\* arg.hostdata: None, or a numpy array. An array is an object: it has an
\* identity (id) besides its contents, and two arguments whose arrays have
\* the same identity hold the same array
HostNone == [isnone |-> TRUE, data |-> <<>>, id |-> 0]
HostArray(d, h) == [isnone |-> FALSE, data |-> d, id |-> h]

\* arg.devdata: a numpy scalar, a cl.LocalMemory object (it has an identity
\* and a size and no contents the host can see), or a cl.Buffer
DevScalar(v) == [kind |-> "scalar", value |-> v, id |-> 0, size |-> 0, data |-> <<>>]
DevLocal(id, nbytes) == [kind |-> "local", value |-> 0, id |-> id, size |-> nbytes, data |-> <<>>]
DevBuffer(d) == [kind |-> "buffer", value |-> 0, id |-> 0, size |-> 0, data |-> d]

\* x.devdata != y.devdata where x.hostdata is None: numpy scalars compare by
\* value; cl.LocalMemory defines no __eq__, so two such objects are equal
\* only if they are the same object
DevNe(x, y) ==
    IF x.kind = "scalar" /\ y.kind = "scalar"
    THEN ElemNe(x.value, y.value)
    ELSE x # y

\* a KernelArg that carries payload data
PayloadArg(desc, hostdata, devdata, bufsize, flags) ==
    [desc |-> desc, hostdata |-> hostdata, devdata |-> devdata,
     bufsize |-> bufsize, flags |-> flags]

\* KernelPayload.__init__
KernelPayload(ctx, args, ndrange, transfersize) ==
    [ctx |-> ctx, args |-> args, ndrange |-> ndrange,
     transfersize |-> transfersize]

\* a payload variable that is not bound yet
NoPayload == KernelPayload("none", <<>>, <<>>, 0)

\* np.arange(n)
Arange(n) == [k \in 1..n |-> Num(k - 1)]

\* the values np.random.rand draws from: 0.0 and 0.5
RandValues == {0, 1}

\* nparray(n): the arrays the generator can return
NpArrays(gen, n) ==
    IF gen = "sequential" THEN {Arange(n)} ELSE [1..n -> RandValues]

\* the arrays _create_payload can get from nparray for one argument: a scalar
\* calls no generator, and of the array made for a __local pointer only the
\* length is kept
ArraysFor(desc, gen, sz) ==
    IF ~desc.is_pointer THEN {<<>>}
    ELSE IF desc.is_local THEN {Arange(sz * desc.vector_width)}
    ELSE NpArrays(gen, sz * desc.vector_width)

\* the size in bytes of the elements of nparray(n): np.arange gives int64,
\* np.random.rand gives float64
GeneratorItemsize(gen) ==
    IF gen = "sequential" THEN Itemsize("int64") ELSE Itemsize("float64")

\* the number of cl.LocalMemory objects a list of arguments needs
RECURSIVE CountLocal(_)
CountLocal(descs) ==
    IF descs = <<>> THEN 0
    ELSE (IF Head(descs).is_pointer /\ Head(descs).is_local THEN 1 ELSE 0)
         + CountLocal(Tail(descs))

\* the flags of the cl.Buffer of a global pointer
BufferFlags(desc) == IF desc.is_const THEN "READ_ONLY" ELSE "READ_WRITE"

\* a variant of CreateArg that gives every pointer a host array
CreateArgWithHostScratch(desc, gen, sz, arr, id, h) ==
    IF desc.is_pointer
    THEN LET host == [k \in DOMAIN arr |-> Astype(arr[k], desc.numpy_type)]
         IN  PayloadArg(desc, HostArray(host, h), DevBuffer(host), 0,
                        BufferFlags(desc))
    ELSE PayloadArg(desc, HostNone,
                    DevScalar(Astype(Num(sz), desc.numpy_type)), 0, "none")

\* one iteration of the loop of _create_payload: the argument, given the
\* array the generator returned and the identity of a new LocalMemory
CreateArg(desc, gen, sz, arr, id, h) ==
    IF desc.is_pointer /\ desc.is_local
    THEN PayloadArg(desc, HostNone,
                    DevLocal(id, Len(arr) * GeneratorItemsize(gen)),
                    Len(arr) * GeneratorItemsize(gen), "none")
    ELSE IF desc.is_pointer
    THEN LET host == [k \in DOMAIN arr |-> Astype(arr[k], desc.numpy_type)]
         IN  PayloadArg(desc, HostArray(host, h), DevBuffer(host), 0,
                        BufferFlags(desc))
    ELSE PayloadArg(desc, HostNone,
                    DevScalar(Astype(Num(sz), desc.numpy_type)), 0, "none")

\* hostdata.nbytes
Nbytes(arg) == Len(arg.hostdata.data) * Itemsize(arg.desc.numpy_type)

\* a variant of TransferOf that counts a const buffer twice as well
TransferOfTwiceForAll(arg) ==
    IF arg.desc.is_pointer /\ arg.desc.is_local THEN 0
    ELSE IF arg.desc.is_pointer THEN 2 * Nbytes(arg)
    ELSE 0

\* a variant of TransferOf that counts a scalar as a const buffer of the
\* payload size
TransferOfWithScalars(arg) ==
    IF arg.desc.is_pointer /\ arg.desc.is_local THEN 0
    ELSE IF arg.desc.is_pointer
    THEN (IF arg.desc.is_const THEN Nbytes(arg) ELSE 2 * Nbytes(arg))
    ELSE (arg.devdata.value \div Scale) * Itemsize(arg.desc.numpy_type)

\* what one argument adds to transfer in _create_payload
TransferOf(arg) ==
    IF arg.desc.is_pointer /\ arg.desc.is_local THEN 0
    ELSE IF arg.desc.is_pointer
    THEN (IF arg.desc.is_const THEN Nbytes(arg) ELSE 2 * Nbytes(arg))
    ELSE 0

RECURSIVE SumTransfer(_)
\* transfer, accumulated over the arguments
SumTransfer(args) ==
    IF args = <<>> THEN 0
    ELSE TransferOf(Head(args)) + SumTransfer(Tail(args))

RECURSIVE CreateArgs(_, _, _, _, _)
\* the argument lists _create_payload can build for the descriptors descs,
\* the first new LocalMemory getting identity id and the host array of the
\* k-th argument the identity hs[k]
CreateArgs(descs, gen, sz, id, hs) ==
    IF descs = <<>> THEN {<<>>}
    ELSE LET d == Head(descs)
             nid == IF d.is_pointer /\ d.is_local THEN id + 1 ELSE id
         IN  {<<CreateArg(d, gen, sz, arr, id, Head(hs))>> \o rest :
                 arr \in ArraysFor(d, gen, sz),
                 rest \in CreateArgs(Tail(descs), gen, sz, nid, Tail(hs))}

\* KernelPayload._create_payload(nparray, driver, size): the payloads it can
\* return
CreatePayloads(gen, descs, sz, id, hs) ==
    {KernelPayload("ctx", args, <<sz>>, SumTransfer(args)) :
        args \in CreateArgs(descs, gen, sz, id, hs)}

RECURSIVE CopyArgs(_, _, _)
\* the loop of __deepcopy__
CopyArgs(args, id, hs) ==
    IF args = <<>> THEN <<>>
    ELSE LET src == Head(args)
         IN  IF src.hostdata.isnone /\ src.desc.is_local
             THEN <<PayloadArg(src.desc, HostNone,
                               DevLocal(id, src.bufsize), src.bufsize, "none")>>
                  \o CopyArgs(Tail(args), id + 1, Tail(hs))
             ELSE IF src.hostdata.isnone
             THEN <<PayloadArg(src.desc, HostNone, src.devdata, 0, "none")>>
                  \o CopyArgs(Tail(args), id, Tail(hs))
             ELSE <<PayloadArg(src.desc, HostArray(src.hostdata.data, Head(hs)),
                               DevBuffer(src.hostdata.data), 0, src.flags)>>
                  \o CopyArgs(Tail(args), id, Tail(hs))

\* a variant of DeepCopy that returns the payload itself
ShallowCopy(p, id, hs) == p

\* KernelPayload.__deepcopy__, the first new LocalMemory getting identity id
\* and the copy of the host array of the k-th argument the identity hs[k]
DeepCopy(p, id, hs) ==
    KernelPayload(p.ctx, CopyArgs(p.args, id, hs), p.ndrange, p.transfersize)

\* the identities of the host arrays of a payload
HostIds(p) ==
    {p.args[k].hostdata.id :
        k \in {a \in DOMAIN p.args : ~p.args[a].hostdata.isnone}}

\* the identities of the host arrays of the payloads bound to the variables
\* of validate and profile
Live(ps) == UNION {HostIds(ps[n]) : n \in DOMAIN ps}

\* the identities of n new arrays: numpy gives every new array an identity
\* no array in use has (the n least ones, to keep the model finite)
NewArrays(used, n) ==
    [k \in 1..n |->
        CHOOSE x \in 1..(Cardinality(used) + k) :
            x \notin used /\ Cardinality((1..x) \ used) = k]

\* the payloads ps after the host arrays of args were written: the write is
\* seen through every argument that holds one of these arrays
StoreThrough(ps, args) ==
    [n \in DOMAIN ps |->
        [ps[n] EXCEPT !.args =
            [k \in DOMAIN ps[n].args |->
                LET x == ps[n].args[k]
                    same == {a \in DOMAIN args :
                                /\ ~args[a].hostdata.isnone
                                /\ args[a].hostdata.id = x.hostdata.id}
                IN  IF x.hostdata.isnone \/ same = {} THEN x
                    ELSE [x EXCEPT !.hostdata.data =
                            args[CHOOSE a \in same : TRUE].hostdata.data]]]]

\* the comparison of one pair of arguments in __eq__
ArgEq(x, y) ==
    IF x.hostdata.isnone
    THEN ~DevNe(x.devdata, y.devdata)
    ELSE /\ Len(x.hostdata.data) = Len(y.hostdata.data)
         /\ ~\E k \in DOMAIN x.hostdata.data :
                ElemNe(x.hostdata.data[k], y.hostdata.data[k])

\* KernelPayload.__eq__
PayloadEq(p, q) ==
    /\ p.ctx = q.ctx
    /\ Len(p.args) = Len(q.args)
    /\ \A k \in DOMAIN p.args : ArgEq(p.args[k], q.args[k])

\* KernelPayload.__ne__
PayloadNe(p, q) == ~PayloadEq(p, q)

-----------------------------------------------------------------------------
(* The kernel and the device: the environment of the driver.               *)

\* the kernels the driver is run on, by what they do to every buffer they
\* may write (a __global pointer that is not const):
\*   "empty"  writes nothing
\*   "inc"    a[i] += 1
\*   "gid"    a[i] = get_global_id(0)
\*   "fill"   a[i] = 7
\*   "rand"   a[i] = r, r drawn anew by every run
\*   "nan"    a[i] = NAN
Kernels == {"empty", "inc", "gid", "fill", "rand", "nan"}

\* the values the kernel "rand" draws r from
KernelDraws(k) == IF k = "rand" THEN {Num(0), Num(3)} ELSE {0}

\* the contents of the device buffer of one argument after the kernel ran
KernelWrites(k, arg, r) ==
    LET d == arg.devdata.data
    IN  IF arg.desc.is_const \/ arg.devdata.kind # "buffer" THEN d
        ELSE CASE k = "empty" -> d
               [] k = "inc" -> [e \in DOMAIN d |-> d[e] + Num(1)]
               [] k = "gid" ->
                    [e \in DOMAIN d |-> Num((e - 1) \div arg.desc.vector_width)]
               [] k = "fill" -> [e \in DOMAIN d |-> Num(7)]
               [] k = "rand" -> [e \in DOMAIN d |-> r]
               [] k = "nan" ->
                    [e \in DOMAIN d |->
                        IF arg.desc.numpy_type = "float32" THEN NaN ELSE Num(7)]

\* self.kernel(queue, output.ndrange, (local_size_x,), *kargs): the device
\* side of every argument after the launch
Launch(k, args, r) ==
    [a \in DOMAIN args |->
        [args[a] EXCEPT !.devdata.data = KernelWrites(k, args[a], r)]]

\* cl.enqueue_copy(queue, arg.devdata, arg.hostdata) for the a-th argument
CopyHostToDevice(args, a) ==
    [args EXCEPT ![a].devdata.data = args[a].hostdata.data]

\* cl.enqueue_copy(queue, arg.hostdata, arg.devdata) for the a-th argument
CopyDeviceToHost(args, a) ==
    [args EXCEPT ![a].hostdata.data = args[a].devdata.data]

\* the number of copy events of host_to_device and of device_to_host
NumHostToDevice(args) ==
    Cardinality({a \in DOMAIN args : ~args[a].hostdata.isnone})
NumDeviceToHost(args) ==
    Cardinality({a \in DOMAIN args :
                    ~args[a].hostdata.isnone /\ ~args[a].desc.is_const})

-----------------------------------------------------------------------------
(* KernelDriver: the single-shot __call__, validate and profile.           *)

\* the name the driver reports for its kernel
KernelName == "K"

\* the exception a fault of the environment raises where the code is at
\* point: the n-th payload synthesis fails (E_BAD_ARGS), or, in the n-th
\* single-shot, binding the arguments fails (E_BAD_ARGS) or an event fails
\* (get_event_time raises E_BAD_PROFILE); in the loops of host_to_device and
\* of device_to_host it is the event of the k-th copy of the loop that fails
FaultPoints == {"create", "set_args", "h2d", "kernel", "d2h"}
NoFault == [at |-> "none", n |-> 0, k |-> 0]
CreateFails == fault.at = "create" /\ fault.n = ncreate + 1
RunFails(point) == fault.at = point /\ fault.n = nrun

\* the copy of the loop what of this single-shot whose event fails, counted
\* from 1; 0 if none does
FailingCopy(what) == IF RunFails(what) THEN fault.k ELSE 0

\* payload variables of validate and profile
PayloadNames ==
    {"A1in", "A2in", "B1in", "B2in", "A1out", "B1out", "A2out", "B2out", "P"}

\* validate or profile is left: by a return (e = "ok") or by the exception e
Leave(e) ==
    /\ dpc' = "done"
    /\ result' = e

\* a variant of ValidateEnds in which profile does not catch the exception
ValidateEndsUncaught(e) ==
    /\ vresult' = e
    /\ metaout' = metaout
    /\ IF entry \in {"profile", "kernel", "file"} /\ e = "ok"
       THEN dpc' = "p_create" /\ result' = result
       ELSE Leave(e)

\* validate ends, by a return (e = "ok") or by raising e; inside profile the
\* exception is caught and printed to metaout, and profile goes on
ValidateEnds(e) ==
    /\ vresult' = e
    /\ IF entry \in {"profile", "kernel", "file"}
       THEN /\ dpc' = "p_create"
            /\ metaout' = IF e = "ok" THEN metaout
                          ELSE Append(metaout, <<e, KernelName>>)
            /\ result' = result
       ELSE /\ Leave(e)
            /\ metaout' = metaout

\* an exception raised where the code is at dpc: in validate, or in profile
\* after the validation phase
Raise(e) ==
    IF dpc \in {"p_create", "p_loop"}
    THEN Leave(e) /\ UNCHANGED <<vresult, metaout>>
    ELSE ValidateEnds(e)

\* a variant of TimedLoopRuns that makes one run more
TimedLoopRunsOneMore(samples, n) == Len(samples) <= n

\* while len(self.runtimes) < min_num_iterations
TimedLoopRuns(samples, n) == Len(samples) < n

\* ---- KernelDriver.__call__ ----

\* a variant of Calls in which validate runs A1, A2, B1, B2
CallsPairwise ==
    [v_run_A1 |-> [input |-> "A1in", output |-> "A1out", next |-> "v_run_A2"],
     v_run_A2 |-> [input |-> "A2in", output |-> "A2out", next |-> "v_run_B1"],
     v_run_B1 |-> [input |-> "B1in", output |-> "B1out", next |-> "v_run_B2"],
     v_run_B2 |-> [input |-> "B2in", output |-> "B2out", next |-> "v_assert"],
     p_loop   |-> [input |-> "P", output |-> "P", next |-> "p_loop"]]

\* the single-shots validate and profile make: the payload given and the
\* variable bound to the payload returned
Calls ==
    [v_run_A1 |-> [input |-> "A1in", output |-> "A1out", next |-> "v_run_B1"],
     v_run_B1 |-> [input |-> "B1in", output |-> "B1out", next |-> "v_run_A2"],
     v_run_A2 |-> [input |-> "A2in", output |-> "A2out", next |-> "v_run_B2"],
     v_run_B2 |-> [input |-> "B2in", output |-> "B2out", next |-> "v_assert"],
     p_loop   |-> [input |-> "P", output |-> "P", next |-> "p_loop"]]

\* one entry of the history of the queue: op is "flush" (queue.flush()),
\* "enqueue" (a command is enqueued, non-blocking), "wait" (event.wait()
\* returned: the command is complete), "raise" (an exception left the
\* single-shot), "set_args", "record" (the three appends) or "return"; cmd
\* is the command, "h2d", "kernel" or "d2h", or "set_args" for the binding
\* of the arguments, and arg the argument copied
Cmd(op, what, a) == [op |-> op, cmd |-> what, arg |-> a]

\* the arguments the loops of host_to_device and device_to_host copy
Copies(what, arg) ==
    IF what = "h2d" THEN ~arg.hostdata.isnone
    ELSE ~arg.hostdata.isnone /\ ~arg.desc.is_const

\* the number of copies the loop what makes for the arguments up to the a-th
CopyOrdinal(what, args, a) ==
    Cardinality({b \in 1..a : Copies(what, args[b])})

\* the argument of the n-th copy of the loop what
CopyArg(what, args, n) ==
    CHOOSE a \in DOMAIN args :
        Copies(what, args[a]) /\ CopyOrdinal(what, args, a) = n

\* a variant of CopyCommands that does not wait for the event of the copy
CopyCommandsUnwaited(what, a, failing) == <<Cmd("enqueue", what, a)>>

\* one copy of the loop of host_to_device (what = "h2d") or of
\* device_to_host (what = "d2h"), that of the a-th argument:
\* cl.enqueue_copy(..., is_blocking=False) and then get_event_time(event),
\* which waits for the event, or raises if the event is failing
CopyCommands(what, a, failing) ==
    <<Cmd("enqueue", what, a),
      Cmd(IF failing THEN "raise" ELSE "wait", what, a)>>

\* the workgroup size cap of __call__
MaxLocalSize == 256

\* a variant of LocalSizeX without the cap
LocalSizeXUncapped(p) == p.ndrange[1]

\* local_size_x = min(output.ndrange[0], 256)
LocalSizeX(p) == Min(p.ndrange[1], MaxLocalSize)

\* queue.flush(); elapsed = 0; output = deepcopy(payload)
RunBegin ==
    /\ dpc \in DOMAIN Calls /\ rpc = "idle"
    /\ dpc = "p_loop" => TimedLoopRuns(runtimes, min_num_iterations)
    /\ output' = DeepCopy(pay[Calls[dpc].input], nalloc + 1,
                          NewArrays(Live(pay), Len(prototype)))
    /\ nalloc' = nalloc + CountLocal(prototype)
    /\ elapsed' = 0
    /\ nrun' = nrun + 1
    /\ rpc' = "h2d"
    /\ UNCHANGED <<prototype, size, must_validate, min_num_iterations, entry,
                   kern, fault, etime, wgsizes, transfers, runtimes, pay, dpc,
                   vresult, result, out, metaout, ncreate>>
    /\ UNCHANGED kvars
    /\ commands' = <<Cmd("flush", "none", 0)>>
    /\ copied' = 0
    /\ UNCHANGED avars

\* elapsed += output.host_to_device(queue), one iteration of its loop that
\* copies at a time: the copy of the next argument with host data is
\* enqueued and get_event_time waits for its event, which blocks, and raises
\* E_BAD_PROFILE if the event fails. After the last copy host_to_device
\* returns the sum of the times of its events, which is added to elapsed; a
\* loop without a copy returns 0 at once.
RunHostToDevice ==
    /\ rpc = "h2d"
    /\ LET n == NumHostToDevice(output.args)
           a == CopyArg("h2d", output.args, copied + 1)
       IN  IF copied < n /\ FailingCopy("h2d") = copied + 1
           THEN /\ Raise("E_BAD_PROFILE")
                /\ rpc' = "idle"
                /\ copied' = 0
                /\ commands' = commands \o CopyCommands("h2d", a, TRUE)
                /\ UNCHANGED <<output, elapsed>>
           ELSE IF copied < n
           THEN /\ output' = [output EXCEPT !.args = CopyHostToDevice(@, a)]
                /\ commands' = commands \o CopyCommands("h2d", a, FALSE)
                /\ IF copied + 1 = n
                   THEN /\ rpc' = "set_args"
                        /\ copied' = 0
                        /\ elapsed' = elapsed + n * etime.h2d
                   ELSE /\ copied' = copied + 1
                        /\ UNCHANGED <<rpc, elapsed>>
                /\ UNCHANGED <<dpc, vresult, result, metaout>>
           ELSE /\ rpc' = "set_args"
                /\ elapsed' = elapsed + 0
                /\ UNCHANGED <<output, copied, commands, dpc, vresult, result,
                               metaout>>
    /\ UNCHANGED <<prototype, size, must_validate, min_num_iterations, entry,
                   kern, fault, etime, wgsizes, transfers, runtimes, pay, out,
                   nalloc, ncreate, nrun>>
    /\ UNCHANGED kvars
    /\ UNCHANGED avars

\* self.kernel.set_args(*kargs)
RunSetArgs ==
    /\ rpc = "set_args"
    /\ IF RunFails("set_args")
       THEN Raise("E_BAD_ARGS") /\ rpc' = "idle"
       ELSE rpc' = "launch" /\ UNCHANGED <<dpc, vresult, result, metaout>>
    /\ UNCHANGED <<prototype, size, must_validate, min_num_iterations, entry,
                   kern, fault, etime, wgsizes, transfers, runtimes, pay,
                   output, elapsed, out, nalloc, ncreate, nrun>>
    /\ UNCHANGED kvars
    /\ UNCHANGED copied
    /\ commands' = Append(commands, Cmd(IF RunFails("set_args") THEN "raise"
                                         ELSE "set_args", "set_args", 0))
    /\ UNCHANGED avars

\* event = self.kernel(queue, ...); elapsed += get_event_time(event)
RunKernel ==
    /\ rpc = "launch"
    /\ IF RunFails("kernel")
       THEN /\ Raise("E_BAD_PROFILE")
            /\ rpc' = "idle"
            /\ UNCHANGED <<output, elapsed>>
       ELSE /\ \E r \in KernelDraws(kern) :
                 output' = [output EXCEPT !.args = Launch(kern, @, r)]
            /\ elapsed' = elapsed + etime.kernel
            /\ rpc' = "d2h"
            /\ UNCHANGED <<dpc, vresult, result, metaout>>
    /\ UNCHANGED <<prototype, size, must_validate, min_num_iterations, entry,
                   kern, fault, etime, wgsizes, transfers, runtimes, pay, out,
                   nalloc, ncreate, nrun>>
    /\ UNCHANGED kvars
    /\ UNCHANGED copied
    /\ commands' = commands \o <<Cmd("enqueue", "kernel", 0),
                               Cmd(IF RunFails("kernel") THEN "raise"
                                   ELSE "wait", "kernel", 0)>>
    /\ UNCHANGED avars

\* what device_to_host returns: elapsed, set to 0 and never added to
DeviceToHostElapsed(args) == 0

\* elapsed += output.device_to_host(queue), one iteration of its loop that
\* copies at a time: the copy of the next argument with host data that is
\* not const is enqueued and get_event_time waits for its event, which
\* blocks, and raises E_BAD_PROFILE if the event fails. After the last copy
\* device_to_host returns; a loop without a copy returns at once.
RunDeviceToHost ==
    /\ rpc = "d2h"
    /\ LET n == NumDeviceToHost(output.args)
           a == CopyArg("d2h", output.args, copied + 1)
       IN  IF copied < n /\ FailingCopy("d2h") = copied + 1
           THEN /\ Raise("E_BAD_PROFILE")
                /\ rpc' = "idle"
                /\ copied' = 0
                /\ commands' = commands \o CopyCommands("d2h", a, TRUE)
                /\ UNCHANGED <<output, elapsed, pay>>
           ELSE IF copied < n
           THEN /\ output' = [output EXCEPT !.args = CopyDeviceToHost(@, a)]
                /\ pay' = StoreThrough(pay, CopyDeviceToHost(output.args, a))
                /\ commands' = commands \o CopyCommands("d2h", a, FALSE)
                /\ IF copied + 1 = n
                   THEN /\ rpc' = "record"
                        /\ copied' = 0
                        /\ elapsed' = elapsed + DeviceToHostElapsed(output.args)
                   ELSE /\ copied' = copied + 1
                        /\ UNCHANGED <<rpc, elapsed>>
                /\ UNCHANGED <<dpc, vresult, result, metaout>>
           ELSE /\ rpc' = "record"
                /\ elapsed' = elapsed + DeviceToHostElapsed(output.args)
                /\ UNCHANGED <<output, pay, copied, commands, dpc, vresult,
                               result, metaout>>
    /\ UNCHANGED <<prototype, size, must_validate, min_num_iterations, entry,
                   kern, fault, etime, wgsizes, transfers, runtimes, out,
                   nalloc, ncreate, nrun>>
    /\ UNCHANGED kvars
    /\ UNCHANGED avars

\* a variant of RecordRuntime that records the time twice
RecordRuntimeTwice(samples, t) == samples \o <<t, t>>

\* self.runtimes.append(elapsed)
RecordRuntime(samples, t) == Append(samples, t)

\* the three appends, queue.flush() and return output
RunRecord ==
    /\ rpc = "record"
    /\ wgsizes' = Append(wgsizes, LocalSizeX(output))
    /\ runtimes' = RecordRuntime(runtimes, elapsed)
    /\ transfers' = Append(transfers, pay[Calls[dpc].input].transfersize)
    /\ pay' = IF dpc = "p_loop" THEN pay
              ELSE [pay EXCEPT ![Calls[dpc].output] = output]
    /\ dpc' = Calls[dpc].next
    /\ rpc' = "idle"
    /\ UNCHANGED <<prototype, size, must_validate, min_num_iterations, entry,
                   kern, fault, etime, output, elapsed, vresult, result, out,
                   metaout, nalloc, ncreate, nrun>>
    /\ UNCHANGED kvars
    /\ UNCHANGED copied
    /\ commands' = commands \o <<Cmd("record", "none", 0),
                               Cmd("flush", "none", 0),
                               Cmd("return", "none", 0)>>
    /\ UNCHANGED avars

\* ---- KernelDriver.validate ----

\* the counter of payload syntheses, kept only as far as a fault can be
\* planned
CountCreate == Min(ncreate + 1, MaxFaultAt + 1)

\* A1in = create_sequential(self, size); A2in = deepcopy(A1in)
ValidateCreateA ==
    /\ dpc = "v_create_A"
    /\ IF CreateFails
       THEN Raise("E_BAD_ARGS") /\ UNCHANGED <<pay, nalloc>>
       ELSE /\ \E p \in CreatePayloads("sequential", prototype, size, nalloc + 1,
                                        NewArrays(Live(pay), Len(prototype))) :
                 pay' = [pay EXCEPT
                            !.A1in = p,
                            !.A2in = DeepCopy(p, nalloc + CountLocal(prototype) + 1,
                                              NewArrays(Live(pay) \cup HostIds(p),
                                                        Len(prototype)))]
            /\ nalloc' = nalloc + 2 * CountLocal(prototype)
            /\ dpc' = "v_create_B"
            /\ UNCHANGED <<vresult, result, metaout>>
    /\ ncreate' = CountCreate
    /\ UNCHANGED <<prototype, size, must_validate, min_num_iterations, entry,
                   kern, fault, etime, wgsizes, transfers, runtimes, rpc,
                   output, elapsed, out, nrun>>
    /\ UNCHANGED kvars
    /\ UNCHANGED <<commands, copied>>
    /\ UNCHANGED avars

\* while B1in == A1in: the test holds, the body is entered
ValidateRegenerate ==
    /\ dpc = "v_regen"
    /\ PayloadEq(pay.B1in, pay.A1in)
    /\ dpc' = "v_create_B"
    /\ UNCHANGED <<prototype, size, must_validate, min_num_iterations, entry,
                   kern, fault, etime, wgsizes, transfers, runtimes, pay, rpc,
                   output, elapsed, vresult, result, out, metaout, nalloc,
                   ncreate, nrun>>
    /\ UNCHANGED kvars
    /\ UNCHANGED <<commands, copied>>
    /\ UNCHANGED avars

\* B1in = create_random(self, size), before the loop and in its body
ValidateCreateB ==
    /\ dpc = "v_create_B"
    /\ IF CreateFails
       THEN Raise("E_BAD_ARGS") /\ UNCHANGED <<pay, nalloc>>
       ELSE /\ \E p \in CreatePayloads("random", prototype, size, nalloc + 1,
                                        NewArrays(Live(pay), Len(prototype))) :
                 pay' = [pay EXCEPT !.B1in = p]
            /\ nalloc' = nalloc + CountLocal(prototype)
            /\ dpc' = "v_regen"
            /\ UNCHANGED <<vresult, result, metaout>>
    /\ ncreate' = CountCreate
    /\ UNCHANGED <<prototype, size, must_validate, min_num_iterations, entry,
                   kern, fault, etime, wgsizes, transfers, runtimes, rpc,
                   output, elapsed, out, nrun>>
    /\ UNCHANGED kvars
    /\ UNCHANGED <<commands, copied>>
    /\ UNCHANGED avars

\* the loop ends, B1in != A1in; B2in = deepcopy(B1in)
ValidateCloneB ==
    /\ dpc = "v_regen"
    /\ ~PayloadEq(pay.B1in, pay.A1in)
    /\ pay' = [pay EXCEPT !.B2in = DeepCopy(pay.B1in, nalloc + 1,
                                             NewArrays(Live(pay), Len(prototype)))]
    /\ nalloc' = nalloc + CountLocal(prototype)
    /\ dpc' = "v_pre"
    /\ UNCHANGED <<prototype, size, must_validate, min_num_iterations, entry,
                   kern, fault, etime, wgsizes, transfers, runtimes, rpc,
                   output, elapsed, vresult, result, out, metaout, ncreate,
                   nrun>>
    /\ UNCHANGED kvars
    /\ UNCHANGED <<commands, copied>>
    /\ UNCHANGED avars

\* the input constraints: A1in == A2in and B1in == B2in, else E_BAD_DRIVER
InputConstraints(p) ==
    IF ~PayloadEq(p.A1in, p.A2in) THEN "E_BAD_DRIVER"
    ELSE IF ~PayloadEq(p.B1in, p.B2in) THEN "E_BAD_DRIVER"
    ELSE "ok"

ValidateInputs ==
    /\ dpc = "v_pre"
    /\ IF InputConstraints(pay) = "ok"
       THEN dpc' = "v_run_A1" /\ UNCHANGED <<vresult, result, metaout>>
       ELSE Raise(InputConstraints(pay))
    /\ UNCHANGED <<prototype, size, must_validate, min_num_iterations, entry,
                   kern, fault, etime, wgsizes, transfers, runtimes, pay, rpc,
                   output, elapsed, out, nalloc, ncreate, nrun>>
    /\ UNCHANGED kvars
    /\ UNCHANGED <<commands, copied>>
    /\ UNCHANGED avars

\* a variant of AnyNonConst: all(not x.is_const ...)
AllNonConst(descs) == \A k \in DOMAIN descs : ~descs[k].is_const

\* any(not x.is_const for x in self.prototype.args)
AnyNonConst(descs) == \E k \in DOMAIN descs : ~descs[k].is_const

\* a variant of OutputConstraints that follows the docstring of validate: the
\* kernel has no output only if neither run changed its payload
OutputConstraintsAsDocumented(p, descs) ==
    IF ~PayloadNe(p.A1in, p.A1out) /\ ~PayloadNe(p.B1in, p.B1out)
    THEN "E_NO_OUTPUTS"
    ELSE IF ~PayloadEq(p.A1out, p.A2out) THEN "E_NONDETERMINISTIC"
    ELSE IF ~PayloadEq(p.B1out, p.B2out) THEN "E_NONDETERMINISTIC"
    ELSE IF (\E k \in DOMAIN descs : ~descs[k].is_const)
            /\ ~PayloadNe(p.A1out, p.B1out)
    THEN "E_INPUT_INSENSITIVE"
    ELSE "ok"

\* the assertions on the outputs, in the order of the code
OutputConstraints(p, descs) ==
    IF ~PayloadNe(p.A1in, p.A1out) THEN "E_NO_OUTPUTS"
    ELSE IF ~PayloadNe(p.B1in, p.B1out) THEN "E_NO_OUTPUTS"
    ELSE IF ~PayloadEq(p.A1out, p.A2out) THEN "E_NONDETERMINISTIC"
    ELSE IF ~PayloadEq(p.B1out, p.B2out) THEN "E_NONDETERMINISTIC"
    ELSE IF AnyNonConst(descs) /\ ~PayloadNe(p.A1out, p.B1out)
    THEN "E_INPUT_INSENSITIVE"
    ELSE "ok"

ValidateOutputs ==
    /\ dpc = "v_assert"
    /\ ValidateEnds(OutputConstraints(pay, prototype))
    /\ UNCHANGED <<prototype, size, must_validate, min_num_iterations, entry,
                   kern, fault, etime, wgsizes, transfers, runtimes, pay, rpc,
                   output, elapsed, out, nalloc, ncreate, nrun>>
    /\ UNCHANGED kvars
    /\ UNCHANGED <<commands, copied>>
    /\ UNCHANGED avars

\* ---- KernelDriver.profile ----

\* if must_validate: try: self.validate(queue, size)
ProfileEnter ==
    /\ dpc = "p_enter"
    /\ dpc' = IF must_validate THEN "v_create_A" ELSE "p_create"
    /\ UNCHANGED <<prototype, size, must_validate, min_num_iterations, entry,
                   kern, fault, etime, wgsizes, transfers, runtimes, pay, rpc,
                   output, elapsed, vresult, result, out, metaout, nalloc,
                   ncreate, nrun>>
    /\ UNCHANGED kvars
    /\ UNCHANGED <<commands, copied>>
    /\ UNCHANGED avars

\* P = KernelPayload.create_random(self, size)
ProfileCreate ==
    /\ dpc = "p_create"
    /\ IF CreateFails
       THEN Raise("E_BAD_ARGS") /\ UNCHANGED <<pay, nalloc>>
       ELSE /\ \E p \in CreatePayloads("random", prototype, size, nalloc + 1,
                                        NewArrays(Live(pay), Len(prototype))) :
                 pay' = [pay EXCEPT !.P = p]
            /\ nalloc' = nalloc + CountLocal(prototype)
            /\ dpc' = "p_loop"
            /\ UNCHANGED <<vresult, result, metaout>>
    /\ ncreate' = CountCreate
    /\ UNCHANGED <<prototype, size, must_validate, min_num_iterations, entry,
                   kern, fault, etime, wgsizes, transfers, runtimes, rpc,
                   output, elapsed, out, nrun>>
    /\ UNCHANGED kvars
    /\ UNCHANGED <<commands, copied>>
    /\ UNCHANGED avars

RECURSIVE Sum(_)
Sum(s) == IF s = <<>> THEN 0 ELSE Head(s) + Sum(Tail(s))

\* int(round(labmath.mean(s))) for a non-empty list of integers: Python
\* rounds a half to the even neighbour
RoundedMean(s) ==
    LET q == Sum(s) \div Len(s)
        r == Sum(s) % Len(s)
    IN  IF 2 * r < Len(s) THEN q
        ELSE IF 2 * r > Len(s) THEN q + 1
        ELSE IF q % 2 = 0 THEN q ELSE q + 1

\* the line profile prints to out; the mean runtime and its confidence
\* interval are kept as the samples they are computed from
ResultRow ==
    [kernel |-> KernelName, wgsize |-> RoundedMean(wgsizes),
     transfer |-> RoundedMean(transfers), runtimes |-> runtimes]

\* the loop is over: the means are computed and the line is printed
ProfilePrint ==
    /\ dpc = "p_loop" /\ rpc = "idle"
    /\ ~TimedLoopRuns(runtimes, min_num_iterations)
    /\ out' = Append(out, ResultRow)
    /\ IF entry \in {"kernel", "file"}
       THEN dpc' = "k_print" /\ result' = result
       ELSE Leave("ok")
    /\ UNCHANGED <<prototype, size, must_validate, min_num_iterations, entry,
                   kern, fault, etime, wgsizes, transfers, runtimes, pay, rpc,
                   output, elapsed, vresult, metaout, nalloc, ncreate, nrun>>
    /\ UNCHANGED kvars
    /\ UNCHANGED <<commands, copied>>
    /\ UNCHANGED avars

-----------------------------------------------------------------------------
(* KernelDriver.__init__ and kernel()                                      *)

\* the parameter filename of kernel()
Filename == "<stdin>"

\* init_opencl: returns a context and a queue, or raises OpenCLNotSupported
\* or OpenCLDeviceNotFound
InitOpenCL(o) == o

\* KernelDriver.build_program: E_BAD_CODE if the build raises
BuildProgram(b) == IF b = "error" THEN "E_BAD_CODE" ELSE "ok"

\* a variant of UglyCode that lets a program without a kernel pass
UglyCodeIfSeveral(n) == n > 1

\* kernels = self._program.all_kernels(); if len(kernels) != 1
UglyCode(n) == n # 1

\* KernelDriver.__init__: how it ends for a build that ends as b and a
\* program of n kernels. (clutil.KernelPrototype.from_source, called between
\* the build and the count, hands over the argument descriptors.)
ConstructResult(b, n) ==
    IF BuildProgram(b) # "ok" THEN BuildProgram(b)
    ELSE IF UglyCode(n) THEN "E_UGLY_CODE"
    ELSE "ok"

\* the three vectors are set to [] at the end of a construction that succeeds
NewVectors(ok) ==
    IF ok
    THEN wgsizes' = <<>> /\ transfers' = <<>> /\ runtimes' = <<>>
    ELSE UNCHANGED <<wgsizes, transfers, runtimes>>

\* KernelDriver(ctx, source), called directly
Construct ==
    /\ entry = "construct" /\ dpc = "construct"
    /\ cresult' = ConstructResult(build, nkernels)
    /\ NewVectors(ConstructResult(build, nkernels) = "ok")
    /\ Leave(ConstructResult(build, nkernels))
    /\ UNCHANGED <<prototype, size, must_validate, min_num_iterations, entry,
                   kern, fault, etime, pay, rpc, output, elapsed, vresult,
                   out, metaout, nalloc, ncreate, nrun>>
    /\ UNCHANGED <<opencl, build, nkernels, fatal_errors, sys_stdout,
                   sys_stderr, devtype, filename, path, pending, kwargs>>
    /\ UNCHANGED <<commands, copied>>
    /\ UNCHANGED avars

\* the default of the parameter devtype of kernel()
Placeholder == "__placeholder__"

\* the value None of the parameter size of kernel(), its default
SizeNone == 0 - 1

\* 2 ** randrange(4, 15)
RandomSizes == {2 ^ e : e \in 4..14}

\* cfg.USE_OPENCL: pyopencl is imported as cl only if it is set, and
\* init_opencl raises OpenCLNotSupported if it is not
UseOpenCL(o) == o # "OpenCLNotSupported"

\* kernel() returns: to its caller, or into the loop of file()
KernelReturns ==
    IF entry = "file"
    THEN dpc' = "f_next" /\ result' = result
    ELSE Leave("ok")

\* kernel(), up to the call of driver.profile. The placeholder of devtype is
\* replaced by cl.device_type.GPU, which is a NameError when pyopencl was not
\* imported. Then init_opencl and KernelDriver in a try: an exception is
\* raised again if fatal_errors, and else printed to sys.stderr, and
\* kernel() returns. If no size is given, a random size is picked.
KernelConstruct ==
    /\ entry \in {"kernel", "file"} /\ dpc = "construct"
    /\ IF devtype = Placeholder /\ ~UseOpenCL(opencl)
       THEN /\ Leave("NameError")
            /\ UNCHANGED <<cresult, wgsizes, transfers, runtimes, size,
                           sys_stderr>>
       ELSE LET e == IF InitOpenCL(opencl) # "ok" THEN InitOpenCL(opencl)
                     ELSE ConstructResult(build, nkernels)
            IN  /\ cresult' = IF InitOpenCL(opencl) # "ok" THEN cresult
                              ELSE ConstructResult(build, nkernels)
                /\ NewVectors(e = "ok")
                /\ IF e = "ok"
                   THEN /\ dpc' = "p_enter"
                        /\ size' \in IF size = SizeNone THEN RandomSizes
                                     ELSE {size}
                        /\ UNCHANGED <<result, sys_stderr>>
                   ELSE IF fatal_errors
                   THEN /\ Leave(e)
                        /\ UNCHANGED <<size, sys_stderr>>
                   ELSE /\ sys_stderr' = Append(sys_stderr,
                                                <<filename, size, e, "-">>)
                        /\ KernelReturns
                        /\ UNCHANGED size
    /\ UNCHANGED <<prototype, must_validate, min_num_iterations, entry,
                   kern, fault, etime, pay, rpc, output, elapsed, vresult,
                   out, metaout, nalloc, ncreate, nrun>>
    /\ UNCHANGED <<opencl, build, nkernels, fatal_errors, sys_stdout,
                   devtype, filename, path, pending, kwargs>>
    /\ UNCHANGED <<commands, copied>>
    /\ UNCHANGED avars

\* kernel(), after driver.profile returned: the lines of out go to
\* sys.stdout and the lines of metaout to sys.stderr, each after the filename
\* and the size
KernelPrint ==
    /\ entry \in {"kernel", "file"} /\ dpc = "k_print"
    /\ sys_stdout' = sys_stdout
                     \o [k \in DOMAIN out |-> <<filename, size, out[k]>>]
    /\ sys_stderr' = sys_stderr
                     \o [k \in DOMAIN metaout |-> <<filename, size, metaout[k]>>]
    /\ KernelReturns
    /\ UNCHANGED <<prototype, size, must_validate, min_num_iterations, entry,
                   kern, fault, etime, wgsizes, transfers, runtimes, pay, rpc,
                   output, elapsed, vresult, out, metaout, nalloc, ncreate,
                   nrun>>
    /\ UNCHANGED <<opencl, build, nkernels, fatal_errors, cresult, devtype,
                   filename, path, pending, kwargs>>
    /\ UNCHANGED <<commands, copied>>
    /\ UNCHANGED avars

\* fs.basename(path), for the paths the model is run on
Basename(p) ==
    CASE p = "tmp/k.cl" -> "k.cl"
      [] p = "k.cl" -> "k.cl"

\* file(), up to its loop: the file is read and clutil.get_cl_kernels
\* returns its kernels; if there is none, E_BAD_CODE is raised if
\* fatal_errors is given as true, and else a line is printed to sys.stderr
FileOpen ==
    /\ entry = "file" /\ dpc = "f_open"
    /\ IF pending = <<>>
       THEN IF kwargs.fatal_errors
            THEN /\ Leave("E_BAD_CODE")
                 /\ UNCHANGED sys_stderr
            ELSE /\ sys_stderr' = Append(sys_stderr,
                                         <<path, "-", "E_BAD_CODE", "-">>)
                 /\ dpc' = "f_next"
                 /\ result' = result
       ELSE /\ dpc' = "f_next"
            /\ UNCHANGED <<result, sys_stderr>>
    /\ UNCHANGED <<prototype, size, must_validate, min_num_iterations, entry,
                   kern, fault, etime, wgsizes, transfers, runtimes, pay, rpc,
                   output, elapsed, vresult, out, metaout, nalloc, ncreate,
                   nrun>>
    /\ UNCHANGED <<opencl, build, nkernels, fatal_errors, cresult, sys_stdout,
                   devtype, filename, path, pending, kwargs>>
    /\ UNCHANGED <<commands, copied>>
    /\ UNCHANGED avars

\* the loop of file(): kernel(kernelsrc, filename=fs.basename(path),
\* **kwargs) for the next kernel of the file, which is about to make a
\* driver, payloads and buffers of its own (those of the call before are
\* dropped); file() returns when there is no kernel left
FileNext ==
    /\ entry = "file" /\ dpc = "f_next"
    /\ IF pending = <<>>
       THEN /\ Leave("ok")
            /\ UNCHANGED <<size, must_validate, pay, rpc, output, elapsed,
                           vresult, out, metaout, nalloc, ncreate, nrun,
                           build, nkernels, fatal_errors, cresult, devtype,
                           filename, pending, commands, copied, wgsizes,
                           transfers, runtimes>>
       ELSE /\ dpc' = "construct"
            /\ result' = result
            /\ filename' = Basename(path)
            /\ devtype' = kwargs.devtype
            /\ size' = kwargs.size
            /\ must_validate' = kwargs.must_validate
            /\ fatal_errors' = kwargs.fatal_errors
            /\ build' = Head(pending).build
            /\ nkernels' = Head(pending).nkernels
            /\ pending' = Tail(pending)
            /\ cresult' = "none"
            /\ wgsizes' = <<>>
            /\ transfers' = <<>>
            /\ runtimes' = <<>>
            /\ vresult' = "none"
            /\ pay' = [p \in PayloadNames |-> NoPayload]
            /\ rpc' = "idle"
            /\ output' = NoPayload
            /\ elapsed' = 0
            /\ out' = <<>>
            /\ metaout' = <<>>
            /\ nalloc' = 0
            /\ ncreate' = 0
            /\ nrun' = 0
            /\ commands' = <<>>
            /\ copied' = 0
    /\ UNCHANGED <<prototype, min_num_iterations, entry, kern, fault, etime,
                   opencl, sys_stdout, sys_stderr, path, kwargs>>
    /\ UNCHANGED avars

-----------------------------------------------------------------------------
(* The driver specification.                                               *)

\* the prototypes of the kernels the driver is run on
Prototypes == {
    <<KernelArg("__global int* a")>>,
    <<KernelArg("__global float* a")>>,
    <<KernelArg("__global int4* a")>>,
    <<KernelArg("__global int* a"), KernelArg("const int n")>>,
    <<KernelArg("__global int* a"), KernelArg("int n")>>,
    <<KernelArg("__global int* a"), KernelArg("__global const int* b")>>,
    <<KernelArg("__global int* a"), KernelArg("__local float* c")>>,
    <<KernelArg("__global const int* b"), KernelArg("const int n")>>,
    <<KernelArg("__local float* c"), KernelArg("int n")>>,
    <<KernelArg("const int n")>> }

\* __kernel void inc(__global int* a, const int n)
IncPrototype == <<KernelArg("__global int* a"), KernelArg("const int n")>>

\* the default of the parameter size of validate and profile
DefaultSize == 16

\* the default of the parameter min_num_iterations of profile
DefaultMinNumIterations == 10

\* times of the events of a run, in ms: of one host to device copy, of the
\* kernel, of one device to host copy
EventTimes == {[h2d |-> 1, kernel |-> 5, d2h |-> 2],
               [h2d |-> 2, kernel |-> 3, d2h |-> 1]}

FaultPlans ==
    {NoFault}
    \cup {[at |-> a, n |-> n, k |-> 1] :
            a \in FaultPoints, n \in 1..MaxFaultAt}
    \cup {[at |-> a, n |-> n, k |-> k] :
            a \in {"h2d", "d2h"}, n \in 1..MaxFaultAt, k \in 2..MaxFaultCopy}

\* the prototype of a kernel without a global buffer
ScratchPrototype == <<KernelArg("__local float* c"), KernelArg("int n")>>

\* the ways init_opencl can end
OpenCLOutcomes == {"ok", "OpenCLNotSupported", "OpenCLDeviceNotFound"}

\* a call of KernelDriver(ctx, source) (e = "construct"), of kernel()
\* (e = "kernel") with the device type dt, or of file() (e = "file") on the
\* path pth of a file with the kernels srcs: no driver is constructed yet
CallInit(descs, s, e, mv, k, f, o, b, n, fe, dt, pth, srcs) ==
    /\ prototype = descs
    /\ size = s
    /\ entry = e
    /\ must_validate = mv
    /\ min_num_iterations = DefaultMinNumIterations
    /\ kern = k
    /\ fault = f
    /\ etime = [h2d |-> 1, kernel |-> 5, d2h |-> 2]
    /\ wgsizes = <<>>
    /\ transfers = <<>>
    /\ runtimes = <<>>
    /\ pay = [p \in PayloadNames |-> NoPayload]
    /\ dpc = IF e = "file" THEN "f_open" ELSE "construct"
    /\ rpc = "idle"
    /\ output = NoPayload
    /\ elapsed = 0
    /\ vresult = "none"
    /\ result = "none"
    /\ out = <<>>
    /\ metaout = <<>>
    /\ nalloc = 0
    /\ ncreate = 0
    /\ nrun = 0
    /\ opencl = o
    /\ build = b
    /\ nkernels = n
    /\ fatal_errors = fe
    /\ cresult = "none"
    /\ sys_stdout = <<>>
    /\ sys_stderr = <<>>
    /\ devtype = dt
    /\ filename = Filename
    /\ path = pth
    /\ pending = srcs
    /\ kwargs = [devtype |-> dt, size |-> s, must_validate |-> mv,
                 fatal_errors |-> fe]
    /\ copied = 0
    /\ commands = <<>>

\* a call of KernelDriver(ctx, source) (e = "construct") or of kernel()
\* (e = "kernel")
KernelInit(descs, s, e, mv, k, f, o, b, n, fe, dt) ==
    CallInit(descs, s, e, mv, k, f, o, b, n, fe, dt, "", <<>>)

\* a call of file() on the path pth of a file with the kernels srcs
FileInit(pth, srcs, descs, s, mv, k, o, fe, dt) ==
    CallInit(descs, s, "file", mv, k, NoFault, o, "ok", 1, fe, dt, pth, srcs)

\* a driver constructed for a kernel k with the prototype descs, and a call
\* of validate (e = "validate") or of profile (e = "profile")
DriverInit(descs, s, e, mv, mi, k, f, et) ==
    /\ prototype = descs
    /\ size = s
    /\ entry = e
    /\ must_validate = mv
    /\ min_num_iterations = mi
    /\ kern = k
    /\ fault = f
    /\ etime = et
    /\ wgsizes = <<>>
    /\ transfers = <<>>
    /\ runtimes = <<>>
    /\ pay = [n \in PayloadNames |-> NoPayload]
    /\ dpc = IF e = "validate" THEN "v_create_A" ELSE "p_enter"
    /\ rpc = "idle"
    /\ output = NoPayload
    /\ elapsed = 0
    /\ vresult = "none"
    /\ result = "none"
    /\ out = <<>>
    /\ metaout = <<>>
    /\ nalloc = 0
    /\ ncreate = 0
    /\ nrun = 0
    /\ opencl = "ok"
    /\ build = "ok"
    /\ nkernels = 1
    /\ fatal_errors = FALSE
    /\ cresult = "ok"
    /\ sys_stdout = <<>>
    /\ sys_stderr = <<>>
    /\ devtype = Placeholder
    /\ filename = Filename
    /\ path = ""
    /\ pending = <<>>
    /\ kwargs = [devtype |-> Placeholder, size |-> s, must_validate |-> mv,
                 fatal_errors |-> FALSE]
    /\ copied = 0
    /\ commands = <<>>

\* no driver: the atomizer specification leaves these variables alone
DriverIdle ==
    /\ DriverInit(<<>>, 0, "none", FALSE, 0, "empty", NoFault,
                  [h2d |-> 0, kernel |-> 0, d2h |-> 0])
    /\ dpc = "p_enter"

\* no atomizer: the driver specification leaves these variables alone
AtomizerIdle ==
    /\ AtomizerInit("none", <<>>, <<>>, <<>>)

\* the prototype of a kernel with two buffers that are copied both ways
TwoBufferPrototype ==
    <<KernelArg("__global int* a"), KernelArg("__global float* a")>>

\* the fault plans that can strike a kernel with the prototype descs: a copy
\* loop has at most one copy for each global pointer
FaultPlansFor(descs) ==
    {f \in FaultPlans :
        \/ f.k <= 1
        \/ f.k <= Cardinality({a \in DOMAIN descs :
                                descs[a].is_pointer /\ ~descs[a].is_local})}

\* the device types kernel() is given: its default, or a device type
DevTypes == {Placeholder, "GPU"}

\* what clutil.get_cl_kernels returns for the files the model is run on:
\* for each kernel of the file, how its build ends and how many kernels the
\* program built has
FileKernels ==
    SeqsUpTo({[build |-> b, nkernels |-> 1] : b \in {"ok", "error"}},
             MaxFileKernels)

DriverStart ==
    \/ \E descs \in Prototypes, s \in 1..MaxSize, k \in Kernels,
          et \in EventTimes :
          \E f \in FaultPlansFor(descs) :
             \/ DriverInit(descs, s, "validate", FALSE, 0, k, f, et)
             \/ \E mv \in BOOLEAN, mi \in 1..MaxIterations :
                   DriverInit(descs, s, "profile", mv, mi, k, f, et)
    \/ \E k \in Kernels, f \in FaultPlansFor(TwoBufferPrototype) :
          DriverInit(TwoBufferPrototype, 1, "validate", FALSE, 0, k, f,
                     [h2d |-> 1, kernel |-> 5, d2h |-> 2])
    \/ \E et \in EventTimes :
          DriverInit(IncPrototype, DefaultSize, "profile", TRUE,
                     DefaultMinNumIterations, "inc", NoFault, et)
    \/ \E mv \in BOOLEAN, mi \in 1..MaxIterations,
          f \in FaultPlansFor(ScratchPrototype),
          et \in EventTimes :
          DriverInit(ScratchPrototype, LargeSize, "profile", mv, mi, "empty",
                     f, et)
    \/ \E descs \in Prototypes, s \in 1..MaxSize, mv \in BOOLEAN,
          k \in {"inc", "empty"} :
          \E f \in FaultPlansFor(descs) :
             KernelInit(descs, s, "kernel", mv, k, f, "ok", "ok", 1, FALSE,
                        Placeholder)
    \/ \E e \in {"construct", "kernel"}, o \in OpenCLOutcomes,
          b \in {"ok", "error"}, n \in 0..MaxKernels, fe \in BOOLEAN,
          dt \in DevTypes :
          /\ e = "construct" => o = "ok" /\ ~fe /\ dt = Placeholder
          /\ KernelInit(IncPrototype, 1, e, FALSE, "inc", NoFault, o, b, n, fe,
                        dt)
    \/ \E mv \in BOOLEAN, b \in {"ok", "error"}, n \in 0..MaxKernels :
          KernelInit(ScratchPrototype, SizeNone, "kernel", mv, "empty",
                     NoFault, "ok", b, n, FALSE, Placeholder)
    \/ \E srcs \in FileKernels, o \in OpenCLOutcomes, fe \in BOOLEAN,
          dt \in DevTypes :
          FileInit("tmp/k.cl", srcs, IncPrototype, 1, FALSE, "inc", o, fe, dt)
    \/ \E srcs \in SeqsUpTo({[build |-> "ok", nkernels |-> 1]},
                             MaxFileKernels) :
          FileInit("tmp/k.cl", srcs, ScratchPrototype, SizeNone, FALSE,
                   "empty", "ok", FALSE, Placeholder)

DriverNext ==
    \/ RunBegin
    \/ RunHostToDevice
    \/ RunSetArgs
    \/ RunKernel
    \/ RunDeviceToHost
    \/ RunRecord
    \/ ValidateCreateA
    \/ ValidateCreateB
    \/ ValidateRegenerate
    \/ ValidateCloneB
    \/ ValidateInputs
    \/ ValidateOutputs
    \/ ProfileEnter
    \/ ProfileCreate
    \/ ProfilePrint
    \/ Construct
    \/ KernelConstruct
    \/ KernelPrint
    \/ FileOpen
    \/ FileNext

DriverInitial == DriverStart /\ AtomizerIdle

DriverSpec == DriverInitial /\ [][DriverNext]_vars

-----------------------------------------------------------------------------
(* validate alone, with a fair random generator.                           *)

\* calls of validate on a driver just constructed
ValidateStart ==
    \E descs \in Prototypes, s \in 1..MaxSize, k \in Kernels :
       \E f \in FaultPlansFor(descs) :
          DriverInit(descs, s, "validate", FALSE, 0, k, f,
                     [h2d |-> 1, kernel |-> 5, d2h |-> 2])

ValidateInitial == ValidateStart /\ AtomizerIdle

ValidateNext ==
    \/ RunBegin
    \/ RunHostToDevice
    \/ RunSetArgs
    \/ RunKernel
    \/ RunDeviceToHost
    \/ RunRecord
    \/ ValidateCreateA
    \/ ValidateCreateB
    \/ ValidateRegenerate
    \/ ValidateCloneB
    \/ ValidateInputs
    \/ ValidateOutputs

\* create_random returns a payload that differs from A1in
DrawDistinct ==
    ValidateCreateB /\ PayloadNe(pay'.B1in, pay'.A1in)

\* validate goes on while it can, and the generator is fair: a payload that
\* differs from A1in, if create_random can return one time and again, is
\* returned in the end
FairValidateSpec ==
    /\ ValidateInitial
    /\ [][ValidateNext]_vars
    /\ WF_vars(ValidateNext)
    /\ SF_vars(DrawDistinct)

-----------------------------------------------------------------------------
(* The atomizer specification.                                             *)

AtomizerStart ==
    \/ \E m \in {"greedy", "char"}, v \in SmallVocabs,
          t \in SeqsUpTo(SmallChars, MaxLen) :
            AtomizerInit(m, v, t, <<>>)
    \/ \E v \in SmallVocabs, e \in SeqsUpTo(0..3, MaxLen) :
            AtomizerInit("decode", v, <<>>, e)
    \/ \E t \in SeededTexts, v \in FollowedVocabs :
            AtomizerInit("greedy", v, t, <<>>)
    \/ \E t \in SeededTexts \cup SeqsUpTo(CorpusChars, MaxLen),
          c \in FollowedAtomizers :
            FromTextInit("greedy", t, c)
    \/ \E t \in SeqsUpTo(SmallChars, MaxLen) :
            FromTextInit("char", t, <<>>)

Init == AtomizerStart /\ DriverIdle

Next ==
    \/ ScanReturn
    \/ ScanPlain
    \/ ScanExtend
    \/ ScanShrink
    \/ ShrinkMatch
    \/ ShrinkStep
    \/ ShrinkFallback
    \/ CharAtomize
    \/ DeatomizeAtomized
    \/ DeatomizeGiven
    \/ GreedyFromText
    \/ CharFromText

Spec == Init /\ [][Next]_vars

-----------------------------------------------------------------------------
(* GreedyAtomizer.atomize alone. The code is sequential: when a statement  *)
(* of the loop can be executed it is executed, which is weak fairness of   *)
(* the steps of the scan.                                                  *)

\* calls of atomize on a greedy atomizer
ScanStart ==
    \/ \E v \in SmallVocabs, t \in SeqsUpTo(SmallChars, MaxLen) :
          AtomizerInit("greedy", v, t, <<>>)
    \/ \E t \in SeededTexts, v \in FollowedVocabs :
          AtomizerInit("greedy", v, t, <<>>)

ScanInitial == ScanStart /\ DriverIdle

ScanNext ==
    \/ ScanReturn
    \/ ScanPlain
    \/ ScanExtend
    \/ ScanShrink
    \/ ShrinkMatch
    \/ ShrinkStep
    \/ ShrinkFallback

FairScanSpec == ScanInitial /\ [][ScanNext]_vars /\ WF_vars(ScanNext)

-----------------------------------------------------------------------------
(* Properties of the atomizer, checked under Spec.                         *)

\* the multi-character atoms of vocabulary v that text t holds at Python
\* position p
AtomsAt(v, t, p) ==
    {a \in DOMAIN v : Len(a) > 1 /\ p + Len(a) <= Len(t)
                        /\ SubSeq(t, p + 1, p + Len(a)) = a}

\* the longest-match token of t at position p: the longest multi-character
\* atom found there, else the character
TokenAt(v, t, p) ==
    IF AtomsAt(v, t, p) = {} THEN <<t[p + 1]>>
    ELSE CHOOSE a \in AtomsAt(v, t, p) :
            \A b \in AtomsAt(v, t, p) : Len(b) <= Len(a)

RECURSIVE LongestMatchTokens(_, _, _)
\* the longest-match tokenization of t from position p on
LongestMatchTokens(v, t, p) ==
    IF p >= Len(t) THEN <<>>
    ELSE <<TokenAt(v, t, p)>>
         \o LongestMatchTokens(v, t, p + Len(TokenAt(v, t, p)))

\* "__kernel void f" and its tokens "__kernel", " ", "void", " ", "f"
KernelVoidText == <<95,95,107,101,114,110,101,108,32,118,111,105,100,32,102>>
KernelVoidTokens ==
    << <<95,95,107,101,114,110,101,108>>, <<32>>, <<118,111,105,100>>,
       <<32>>, <<102>> >>

\* "  x" and its tokens "  ", "x"
TwoSpacesText == <<32,32,120>>
TwoSpacesTokens == << <<32,32>>, <<120>> >>

\* C1: whenever the greedy atomize returns, the atoms it emitted,
\* concatenated in order, are the text, and deatomize of the indices it
\* returned gives back the text.
GreedyRoundTrip ==
    mode = "greedy" =>
        /\ ret.kind = "ok" => Concat(emitted) = text
        /\ apc = "done" => decoded = Returned(text)

\* C1 witness: a round trip of a text whose last atom is a multi-character
\* atom matched with the trial end beyond the end of the text
GreedyRoundTripWitness ==
    /\ mode = "greedy" /\ apc = "done"
    /\ decoded = Returned(text)
    /\ Len(text) >= 3
    /\ i > Len(text)
    /\ Len(emitted[Len(emitted)]) > 1

\* one of the seeded vocabularies: they have the same keys, and neither the
\* tokens of a text nor the atoms that a character heads depend on the numbers
SeededVocab == CHOOSE v \in FollowedVocabs : TRUE
SeededLookup == Lookup(SeededVocab)

\* C2: the atoms the greedy scan has emitted are always the first tokens of
\* the longest-match tokenization of the text, all of them when the scan
\* returns; with the seeded vocabulary "__kernel void f" gives "__kernel",
\* " ", "void", " ", "f" and "  x" gives "  ", "x".
GreedyLongestMatch ==
    mode = "greedy" =>
        LET ref == LongestMatchTokens(vocab, text, 0)
        IN  /\ Len(emitted) <= Len(ref)
            /\ emitted = SubSeq(ref, 1, Len(emitted))
            /\ ret.kind = "ok" => emitted = ref
            /\ (ret.kind = "ok" /\ text = KernelVoidText /\ vocab \in OpenCLVocabs)
                   => emitted = KernelVoidTokens
            /\ (ret.kind = "ok" /\ text = TwoSpacesText /\ vocab \in OpenCLVocabs)
                   => emitted = TwoSpacesTokens

\* C2 witness: the scan of "__kernel void f" with the seeded vocabulary has
\* returned
GreedyLongestMatchWitness ==
    /\ mode = "greedy" /\ ret.kind = "ok"
    /\ text = KernelVoidText /\ vocab \in OpenCLVocabs
    /\ emitted = KernelVoidTokens

\* C10: atomize ends with VocabError exactly when an atom it has to emit is
\* not in the vocabulary (greedy: a token of the longest-match tokenization;
\* character: a character of the text) and else returns one index per atom;
\* deatomize ends with VocabError exactly when an index is the index of no
\* atom and else returns a text; an error carries no partial result.
VocabErrorExactly ==
    /\ (mode = "greedy" /\ apc \in {"atomized", "done"}) =>
          LET ref == LongestMatchTokens(vocab, text, 0)
          IN  IF \E k \in DOMAIN ref : ref[k] \notin DOMAIN vocab
              THEN ret = VocabError
              ELSE ret.kind = "ok" /\ Len(ret.val) = Len(ref)
    /\ (mode = "char" /\ apc \in {"atomized", "done"}) =>
          IF \E k \in DOMAIN text : <<text[k]>> \notin DOMAIN vocab
          THEN ret = VocabError
          ELSE ret.kind = "ok" /\ Len(ret.val) = Len(text)
    /\ apc = "done" =>
          IF \E k \in DOMAIN encoded : encoded[k] \notin Range(vocab)
          THEN decoded = VocabError
          ELSE decoded.kind = "ok"

\* C10 witness: the greedy scan raised VocabError at a fallback character
\* after it had emitted a multi-character atom
VocabErrorWitness ==
    /\ mode = "greedy" /\ apc = "atomized"
    /\ ret = VocabError
    /\ Len(emitted) > 0
    /\ Len(emitted[1]) > 1

\* the number of the strings of S that are smaller than a
Rank(a, S) == Cardinality({b \in S : StrLess(b, a)})

\* C11: the vocabulary of the atomizer GreedyAtomizer.from_text returns has
\* for keys exactly the distinct tokens of the seeded tokenization of the
\* corpus, each mapped to its position in their sorted list; it is a
\* bijection onto 0..N-1 and the decoder is its inverse.
FromTextVocabulary ==
    (mode = "greedy" /\ stage = "induced") =>
        /\ tokens = LongestMatchTokens(SeededVocab, text, 0)
        /\ DOMAIN vocab = Range(tokens)
        /\ \A a \in DOMAIN vocab : vocab[a] = Rank(a, Range(tokens))
        /\ Range(vocab) = 0..(Cardinality(Range(tokens)) - 1)
        /\ \A a, b \in DOMAIN vocab : vocab[a] = vocab[b] => a = b
        /\ DOMAIN decoder = Range(vocab)
        /\ \A a \in DOMAIN vocab : decoder[vocab[a]] = a

\* C11 witness: from_text returned for a corpus with a repeated token and a
\* multi-character token, whose first token is not the smallest
FromTextVocabularyWitness ==
    /\ mode = "greedy" /\ stage = "induced"
    /\ Cardinality(DOMAIN vocab) >= 3
    /\ Cardinality(DOMAIN vocab) < Len(tokens)
    /\ vocab[tokens[1]] > 0
    /\ \E a \in DOMAIN vocab : Len(a) > 1

-----------------------------------------------------------------------------
(* Properties of the driver, checked under DriverSpec.                     *)

\* validate has made its four single-shots and has ended
ValidateRanAll == vresult # "none" /\ pay.B2out # NoPayload

\* the prototype has a buffer the kernel may write
HasOutputBuffer ==
    \E k \in DOMAIN prototype :
        /\ prototype[k].is_pointer
        /\ ~prototype[k].is_local
        /\ ~prototype[k].is_const

\* C3: after the four runs validate raises E_NO_OUTPUTS whenever A1in ==
\* A1out or B1in == B1out, whatever the later checks would find, and so it
\* does for the kernel with an empty body.
NoOutputsFirst ==
    ValidateRanAll =>
        /\ (PayloadEq(pay.A1in, pay.A1out) \/ PayloadEq(pay.B1in, pay.B1out))
              => vresult = "E_NO_OUTPUTS"
        /\ kern = "empty" => vresult = "E_NO_OUTPUTS"

\* C3 witness: E_NO_OUTPUTS is raised for a kernel whose two runs on A gave
\* different outputs
NoOutputsFirstWitness ==
    /\ ValidateRanAll
    /\ vresult = "E_NO_OUTPUTS"
    /\ HasOutputBuffer
    /\ PayloadEq(pay.A1in, pay.A1out)
    /\ ~PayloadEq(pay.A1out, pay.A2out)

\* the kernels whose output is a function of their input
DeterministicKernels == Kernels \ {"rand"}

\* C4, as claimed: validate never raises E_NONDETERMINISTIC for a kernel
\* whose output is a function of its input.
DeterministicNeverFlagged ==
    kern \in DeterministicKernels => vresult # "E_NONDETERMINISTIC"

\* C5: when the no-output and the determinism checks pass, validate raises
\* E_INPUT_INSENSITIVE if some argument of the prototype is not const and
\* A1out == B1out, and returns otherwise.
InputInsensitiveExactly ==
    (/\ ValidateRanAll
     /\ PayloadNe(pay.A1in, pay.A1out) /\ PayloadNe(pay.B1in, pay.B1out)
     /\ PayloadEq(pay.A1out, pay.A2out) /\ PayloadEq(pay.B1out, pay.B2out))
    => IF /\ \E k \in DOMAIN prototype : prototype[k].is_const = FALSE
          /\ PayloadEq(pay.A1out, pay.B1out)
       THEN vresult = "E_INPUT_INSENSITIVE"
       ELSE vresult = "ok"

\* C5 witness: E_INPUT_INSENSITIVE is raised for a prototype that has a
\* const argument too
InputInsensitiveWitness ==
    /\ ValidateRanAll
    /\ vresult = "E_INPUT_INSENSITIVE"
    /\ \E k \in DOMAIN prototype : prototype[k].is_const

\* the prototype of a kernel with an output buffer a and an input buffer b
GidPrototype ==
    <<KernelArg("__global int* a"), KernelArg("__global const int* b")>>

\* C6, as claimed: for the kernel that writes get_global_id(0) to a[i] and
\* does not read its input buffer b, validate raises E_INPUT_INSENSITIVE.
GidKernelInsensitive ==
    (ValidateRanAll /\ kern = "gid" /\ prototype = GidPrototype)
        => vresult = "E_INPUT_INSENSITIVE"

\* the payloads synthesized by create_sequential and create_random
Synthesized == {pay.A1in, pay.B1in, pay.P} \ {NoPayload}

\* C7, as claimed: a clone of a synthesized payload equals the payload, and
\* validate does not raise E_BAD_DRIVER.
CloneEqualsOriginal ==
    /\ \A p \in Synthesized :
          PayloadEq(DeepCopy(p, nalloc + 1, NewArrays(Live(pay), Len(p.args))), p)
    /\ vresult # "E_BAD_DRIVER"

\* what the argument described by desc adds to the transfer size of a
\* payload of size s
ExpectedTransfer(desc, s) ==
    IF desc.is_pointer /\ ~desc.is_local
    THEN (IF desc.is_const THEN 1 ELSE 2)
         * (s * desc.vector_width) * Itemsize(desc.numpy_type)
    ELSE 0

\* a payload has the transfer size and the host buffers of the claim
TransferAsSpecified(p) ==
    /\ p.transfersize =
          Sum([k \in DOMAIN prototype |-> ExpectedTransfer(prototype[k], size)])
    /\ \A k \in DOMAIN p.args :
          (prototype[k].is_pointer /\ ~prototype[k].is_local)
              => Len(p.args[k].hostdata.data) = size * prototype[k].vector_width

\* C8: the transfersize of a synthesized payload is the sum, over the const
\* pointers, of the bytes of the host buffer plus twice that sum over the
\* other global pointers, a host buffer having size * W elements; scalars
\* and __local pointers add nothing; a clone has the transfersize of its
\* original.
TransferSizeFormula ==
    /\ \A p \in Synthesized : TransferAsSpecified(p)
    /\ pay.A2in # NoPayload => pay.A2in.transfersize = pay.A1in.transfersize
    /\ pay.B2in # NoPayload => pay.B2in.transfersize = pay.B1in.transfersize

\* C8 witness: a random payload of size 2 for a buffer and a const buffer
\* of int has been cloned: 2 * 8 + 8 bytes
TransferSizeWitness ==
    /\ prototype = <<KernelArg("__global int* a"),
                     KernelArg("__global const int* b")>>
    /\ size = 2
    /\ pay.B2in # NoPayload
    /\ pay.B2in.transfersize = 24

\* profile of inc(__global int* a, const int n) with size 16 has returned
IncProfiled ==
    /\ prototype = IncPrototype /\ kern = "inc" /\ size = DefaultSize
    /\ entry = "profile" /\ must_validate
    /\ result = "ok"

\* C9, as claimed: the row has workgroup size 16 and transfer size 192.
IncRow192 ==
    IncProfiled =>
        /\ Len(out) = 1
        /\ out[1].wgsize = 16
        /\ out[1].transfer = 192

\* C9, amended: the validator succeeds, and the one row has workgroup size
\* 16 and transfer size 128, twice the 4 * 16 bytes of a; the scalar n adds
\* nothing.
IncRow128 ==
    IncProfiled =>
        /\ vresult = "ok" /\ metaout = <<>>
        /\ Len(out) = 1
        /\ out[1].wgsize = 16
        /\ out[1].transfer = 128

\* C9 witness: the profile of inc with size 16 and ten iterations returned
IncRowWitness ==
    /\ IncProfiled
    /\ min_num_iterations = DefaultMinNumIterations
    /\ Len(runtimes) = DefaultMinNumIterations
    /\ Len(out) = 1

\* C12: the construction of a driver fails with E_BAD_CODE if the build
\* reports an error, fails with E_UGLY_CODE if the program built has zero or
\* several kernels, and succeeds only with exactly one kernel; a driver just
\* constructed has three empty measurement vectors.
ConstructionOutcome ==
    cresult # "none" =>
        /\ build = "error" => cresult = "E_BAD_CODE"
        /\ (build = "ok" /\ nkernels # 1) => cresult = "E_UGLY_CODE"
        /\ cresult = "ok" <=> (build = "ok" /\ nkernels = 1)
        /\ entry = "construct" => result = cresult
        /\ (cresult = "ok" /\ (entry = "construct" \/ dpc = "p_enter")) =>
              /\ wgsizes = <<>>
              /\ transfers = <<>>
              /\ runtimes = <<>>

\* C12 witness: the construction failed with E_UGLY_CODE for a source that
\* builds to a program without a kernel
ConstructionOutcomeWitness ==
    /\ entry = "construct" /\ dpc = "done"
    /\ build = "ok" /\ nkernels = 0
    /\ result = "E_UGLY_CODE"

\* the validation phase of profile has ended by an exception
ValidationRaised ==
    /\ entry \in {"profile", "kernel"} /\ must_validate
    /\ vresult \notin {"none", "ok"}

\* C13: an exception of the validation phase of profile is caught and
\* printed as the one metadata line <ErrorKind>,<kernel_name>; profile goes
\* on to the payload and the timed loop, and when it returns it has as many
\* samples as it was asked for and has printed its row. Only a later fault
\* of the device makes it end otherwise.
ValidationCaught ==
    ValidationRaised =>
        /\ metaout = << <<vresult, KernelName>> >>
        /\ dpc \in {"p_create", "p_loop", "k_print", "done"}
        /\ result \in {"none", "ok", "E_BAD_ARGS", "E_BAD_PROFILE"}
        /\ result \in {"E_BAD_ARGS", "E_BAD_PROFILE"} =>
              /\ fault # NoFault
              /\ vresult \notin {"E_BAD_ARGS", "E_BAD_PROFILE"}
        /\ result = "ok" =>
              /\ Len(out) = 1
              /\ Len(runtimes) >= min_num_iterations

\* C13 witness: kernel() returned after the validation of a kernel with an
\* empty body raised E_NO_OUTPUTS; six timed runs followed the four of the
\* validation
ValidationCaughtWitness ==
    /\ ValidationRaised
    /\ vresult = "E_NO_OUTPUTS"
    /\ result = "ok"
    /\ nrun = DefaultMinNumIterations
    /\ Len(out) = 1
    /\ sys_stderr = << <<Filename, size, <<"E_NO_OUTPUTS", KernelName>> >> >>

\* C14, as claimed: an E_BAD_ARGS or E_BAD_PROFILE raised while kernel()
\* drives a kernel never leaves kernel(); it ends as a metadata line.
FaultsSurfaced ==
    entry = "kernel" => result \notin {"E_BAD_ARGS", "E_BAD_PROFILE"}

\* the single-shots of the validation phase that recorded a sample
ValidationSamples ==
    Cardinality({n \in {"A1out", "B1out", "A2out", "B2out"} :
                    pay[n] # NoPayload})

\* profile has returned
ProfileReturned ==
    \/ entry = "profile" /\ result = "ok"
    \/ entry = "kernel" /\ cresult = "ok" /\ (dpc = "k_print" \/ result = "ok")

Max(a, b) == IF a >= b THEN a ELSE b

\* C15: every timed run of profile is given the one random payload P; when
\* profile returns, the driver holds max(min_num_iterations, samples of the
\* validation phase) runtime samples, and one row has been printed.
ProfileSampleCount ==
    /\ (dpc = "p_loop" /\ rpc = "h2d") =>
          /\ pay.P # NoPayload
          /\ output.ndrange = <<size>>
          /\ \A k \in DOMAIN prototype :
                /\ output.args[k].hostdata.isnone = pay.P.args[k].hostdata.isnone
                /\ output.args[k].hostdata.data = pay.P.args[k].hostdata.data
    /\ ProfileReturned =>
          /\ Len(runtimes) = Max(min_num_iterations, ValidationSamples)
          /\ Len(out) = 1

\* C15 witness: profile returned after a validation that left four samples
\* and six timed runs that made up the ten asked for
ProfileSampleCountWitness ==
    /\ ProfileReturned
    /\ min_num_iterations = DefaultMinNumIterations
    /\ ValidationSamples = 4
    /\ nrun = DefaultMinNumIterations
    /\ Len(runtimes) = DefaultMinNumIterations

\* the time of the events of a single-shot: its copies to the device, its
\* kernel execution and its copies back to the host
RoundTripTime(args) ==
    NumHostToDevice(args) * etime.h2d + etime.kernel
    + NumDeviceToHost(args) * etime.d2h

\* C16, as claimed: the runtime a single-shot records is the sum of the times
\* of its host-to-device copies, its kernel execution and its device-to-host
\* copies.
RuntimeIsRoundTrip ==
    rpc = "record" => elapsed = RoundTripTime(output.args)

\* the runtime a single-shot does record: the device-to-host copies are
\* waited for and left out
RuntimeOmitsDeviceToHost ==
    rpc = "record" =>
        elapsed = NumHostToDevice(output.args) * etime.h2d + etime.kernel

\* the loop of file() calls kernel() again: the driver of the call before,
\* and its vectors, are dropped
DriverDropped == dpc = "f_next" /\ dpc' = "construct"

\* C17: a step that ends a single-shot appends min(ndrange[0], 256) to the
\* workgroup sizes, the transfersize of the payload given to the transfer
\* sizes and the elapsed time to the runtimes, and no other step changes a
\* vector of the driver; so every workgroup size recorded is at most 256 and is the
\* payload size when that is at most 256.
RecordAppends ==
    /\ [](\A k \in DOMAIN wgsizes :
            /\ wgsizes[k] <= 256
            /\ size <= 256 => wgsizes[k] = size)
    /\ [][IF rpc = "record"
          THEN /\ wgsizes' = Append(wgsizes, Min(output.ndrange[1], 256))
               /\ transfers' =
                     Append(transfers, pay[Calls[dpc].input].transfersize)
               /\ runtimes' = Append(runtimes, elapsed)
          ELSE DriverDropped \/ UNCHANGED <<wgsizes, transfers, runtimes>>]_vars

\* C17 witness: a single-shot on a payload of more than 256 elements has
\* recorded the workgroup size 256
RecordAppendsWitness ==
    /\ size > 256
    /\ Len(wgsizes) >= 1
    /\ Len(transfers) = Len(wgsizes) /\ Len(runtimes) = Len(wgsizes)
    /\ wgsizes[1] = 256

\* equality of one pair of arguments as the claim has it: a scalar by its
\* device-side value, a pointer that is not __local by its host buffer, a
\* __local pointer not at all
ArgEqAsSpecified(x, y) ==
    IF ~x.desc.is_pointer THEN ~ElemNe(x.devdata.value, y.devdata.value)
    ELSE IF x.desc.is_local THEN TRUE
    ELSE /\ Len(x.hostdata.data) = Len(y.hostdata.data)
         /\ \A k \in DOMAIN x.hostdata.data :
                ~ElemNe(x.hostdata.data[k], y.hostdata.data[k])

PayloadEqAsSpecified(p, q) ==
    /\ p.ctx = q.ctx
    /\ Len(p.args) = Len(q.args)
    /\ \A k \in DOMAIN p.args : ArgEqAsSpecified(p.args[k], q.args[k])

\* the payloads validate and profile hold
Payloads == {pay[n] : n \in PayloadNames} \ {NoPayload}

\* C18, as claimed: two payloads are equal exactly when their contexts, their
\* argument counts, their scalars and the host buffers of their pointers
\* that are not __local are equal; a __local scratch buffer never makes two
\* payloads unequal.
EqualityAsSpecified ==
    \A p, q \in Payloads : PayloadEq(p, q) <=> PayloadEqAsSpecified(p, q)

\* outside the prototypes with a __local pointer the two agree
EqualityWithoutLocal ==
    (\A k \in DOMAIN prototype : ~prototype[k].is_local) =>
        \A p, q \in Payloads : PayloadEq(p, q) <=> PayloadEqAsSpecified(p, q)

\* a call of CharacterAtomizer.from_text, and of atomize and deatomize on the
\* atomizer it returns, when it returns one, has ended
CharFromTextEnded ==
    /\ mode = "char" /\ stage # "atomize"
    /\ apc \in {"raised", "done"} \/ ret = VocabError

\* C19, as claimed: for every corpus T, CharacterAtomizer.from_text(T)
\* returns an atomizer A that gives the more frequent character the smaller
\* index, the earlier of two equally frequent ones first, and
\* A.deatomize(A.atomize(T)) is T.
CharFromTextRoundTrip ==
    CharFromTextEnded =>
        /\ stage = "induced"
        /\ \A a, b \in DOMAIN vocab :
              vocab[a] < vocab[b] => Count(text, a[1]) >= Count(text, b[1])
        /\ decoded = Returned(text)

\* for a corpus that is not empty the claim holds
CharFromTextRoundTripNonEmpty ==
    (CharFromTextEnded /\ text # <<>>) =>
        /\ stage = "induced"
        /\ \A a, b \in DOMAIN vocab :
              vocab[a] < vocab[b] => Count(text, a[1]) >= Count(text, b[1])
        /\ decoded = Returned(text)

\* C20, as claimed: with a fair random generator validate leaves the loop
\* that draws B1in, for every prototype and size.
RegenerationEnds ==
    (dpc = "v_create_B") ~> (dpc \notin {"v_create_B", "v_regen"})

\* the random payloads of this prototype and size all equal the sequential
\* payload: no argument is a __local pointer, and every global buffer is a
\* buffer of integers of one element per work item, at size 1
NoDistinctDraw ==
    \A k \in DOMAIN prototype :
        /\ ~prototype[k].is_local
        /\ prototype[k].is_pointer =>
              /\ prototype[k].numpy_type \in {"int32", "int64"}
              /\ size * prototype[k].vector_width = 1

\* where a distinct payload exists the loop is left
RegenerationEndsIfPossible ==
    (dpc = "v_create_B" /\ ~NoDistinctDraw)
        ~> (dpc \notin {"v_create_B", "v_regen"})

RECURSIVE ResetScan(_, _, _, _, _)
RECURSIVE ResetShrink(_, _, _, _, _)
\* the scanner of GreedyAtomizer.atomize with the trial end set to i + 2
\* after every emission: what it returns or raises for the vocabulary v and
\* the text t, from the anchor a, the trial end b and the indices acc on
ResetScan(v, t, a, b, acc) ==
    IF ~(a < Len(t)) THEN Returned(acc)
    ELSE LET multis == {x \in DOMAIN v : Len(x) > 1 /\ x[1] = t[a + 1]}
         IN  IF multis = {}
             THEN (IF <<t[a + 1]>> \in DOMAIN v
                   THEN ResetScan(v, t, a + 1, a + 3, Append(acc, v[<<t[a + 1]>>]))
                   ELSE VocabError)
             ELSE IF b <= Len(t) /\ \E x \in multis : StartsWith(x, Slice(t, a, b))
             THEN ResetScan(v, t, a, b + 1, acc)
             ELSE ResetShrink(v, t, a, b, acc)

\* its inner loop
ResetShrink(v, t, a, b, acc) ==
    IF b > a + 1
    THEN (IF \E x \in DOMAIN v : Len(x) > 1 /\ x[1] = t[a + 1] /\ x = Slice(t, a, b)
          THEN ResetScan(v, t, b, b + 2, Append(acc, v[Slice(t, a, b)]))
          ELSE ResetShrink(v, t, a, b - 1, acc))
    ELSE (IF <<t[a + 1]>> \in DOMAIN v
          THEN ResetScan(v, t, a + 1, a + 3, Append(acc, v[<<t[a + 1]>>]))
          ELSE VocabError)

\* C21: the scanner as implemented, which adds 2 to the trial end after an
\* emission, and the scanner that sets the trial end to i + 2 end alike for
\* every vocabulary and text: with the same indices, or both with VocabError.
DriftIsHarmless ==
    (mode = "greedy" /\ ret # NoResult) =>
        ret = ResetScan(vocab, text, 0, 2, <<>>)

\* C21 witness: a scan returned that emitted a multi-character atom after a
\* single character, with the trial end beyond i + 2 on the way
DriftIsHarmlessWitness ==
    /\ mode = "greedy" /\ ret.kind = "ok"
    /\ Len(emitted) >= 2
    /\ Len(emitted[1]) = 1
    /\ Len(emitted[2]) > 1
    /\ j > i + 2

\* C22, as claimed: every emission leaves the trial end at i + 2 for the new
\* anchor i.
EmissionResetsTrialEnd ==
    [][(mode = "greedy" /\ Len(emitted') > Len(emitted)) => j' = i' + 2]_vars

\* C22, amended: every emission adds 2 to the trial end, so that at the top
\* of the loop j >= i + 2 holds, with j = i + 2 after the emission of a
\* multi-character atom and after a fallback.
EmissionAdvancesTrialEnd ==
    /\ []((mode = "greedy" /\ apc = "scan") => j >= i + 2)
    /\ [][(mode = "greedy" /\ Len(emitted') > Len(emitted)) =>
            /\ j' = j + 2
            /\ (apc = "shrink" => j' = i' + 2)
            /\ (apc = "scan" => j' - i' = (j - i) + 1)]_vars

\* C22 witness: the scan is at a new anchor with the trial end beyond i + 2
EmissionAdvancesTrialEndWitness ==
    /\ mode = "greedy" /\ apc = "scan"
    /\ Len(emitted) >= 2
    /\ i < Len(text)
    /\ j > i + 2

\* the multi-character atoms of the vocabulary headed by the character at
\* the anchor
HeadedByAnchor == {x \in DOMAIN vocab : Len(x) > 1 /\ x[1] = text[i + 1]}

\* the scan is at the top of the loop, on an anchor that heads an atom
AtHeadAnchor ==
    /\ mode = "greedy" /\ apc = "scan"
    /\ i < Len(text)
    /\ HeadedByAnchor # {}

\* C23, as claimed: j is advanced by one exactly while j <= len(text) and
\* some multi-character atom with the head is a proper prefix of text[i:j];
\* else shrinking starts from that j.
ExtendsWhileAtomIsPrefix ==
    [][AtHeadAnchor =>
          IF /\ j <= Len(text)
             /\ \E x \in HeadedByAnchor :
                   Len(x) < j - i /\ StartsWith(Slice(text, i, j), x)
          THEN j' = j + 1 /\ i' = i /\ apc' = "scan"
          ELSE j' = j /\ i' = i /\ apc' = "shrink"]_vars

\* C23, amended: j is advanced by one exactly while j <= len(text) and
\* text[i:j] is a prefix of some multi-character atom with the head (the
\* atom itself included); else shrinking starts from that j.
ExtendsWhilePrefixOfAtom ==
    [][AtHeadAnchor =>
          IF /\ j <= Len(text)
             /\ \E x \in HeadedByAnchor :
                   /\ j - i <= Len(x)
                   /\ \A k \in 1..(j - i) : text[i + k] = x[k]
          THEN j' = j + 1 /\ i' = i /\ apc' = "scan"
          ELSE j' = j /\ i' = i /\ apc' = "shrink"]_vars

\* C23 witness: at the first anchor the extension went beyond i + 2 and
\* halted inside the text, and the shrinking has started
ExtendsWhilePrefixOfAtomWitness ==
    /\ mode = "greedy" /\ apc = "shrink"
    /\ i = 0
    /\ j >= 3
    /\ j <= Len(text)
    /\ emitted = <<>>

\* the number of commands outstanding after the first n entries of the
\* history of the queue
Outstanding(n) ==
    Cardinality({p \in 1..n : commands[p].op = "enqueue"})
    - Cardinality({p \in 1..n : commands[p].op = "wait"})

\* the stage of a single-shot the p-th entry of the history belongs to
Phase(p) ==
    LET c == commands[p]
    IN  IF c.op = "flush" THEN (IF p = 1 THEN 0 ELSE 6)
        ELSE IF c.cmd = "h2d" THEN 1
        ELSE IF c.op = "set_args" THEN 2
        ELSE IF c.cmd = "kernel" THEN 3
        ELSE IF c.cmd = "d2h" THEN 4
        ELSE IF c.op = "record" THEN 5
        ELSE IF c.op = "return" THEN 7
        ELSE 2

\* the single-shot returned
SingleShotReturned ==
    commands # <<>> /\ commands[Len(commands)].op = "return"

\* C24: in a single-shot the queue is flushed, then the host-to-device
\* copies complete, then the arguments are bound and the kernel is launched
\* and completes, then the device-to-host copies complete, then the
\* measurements are recorded and the queue is flushed; nothing is
\* outstanding at the return, and at most one command at any time.
SingleShotOrdered ==
    /\ commands # <<>> => commands[1].op = "flush"
    /\ \A p, q \in DOMAIN commands : p < q => Phase(p) <= Phase(q)
    /\ \A p \in DOMAIN commands :
          /\ Outstanding(p) \in {0, 1}
          /\ commands[p].op \in {"flush", "set_args", "record", "return"} =>
                Outstanding(p) = 0
          /\ (commands[p].op \in {"wait", "raise"}
                 /\ commands[p].cmd # "set_args") =>
                /\ p > 1
                /\ commands[p - 1] = Cmd("enqueue", commands[p].cmd,
                                         commands[p].arg)
          /\ commands[p].op = "raise" => p = Len(commands)
    /\ SingleShotReturned =>
          /\ Outstanding(Len(commands)) = 0
          /\ {Phase(p) : p \in DOMAIN commands} \ {1, 4} = {0, 2, 3, 5, 6, 7}
          /\ \A a \in DOMAIN output.args :
                /\ Copies("h2d", output.args[a]) <=>
                      \E p \in DOMAIN commands :
                          commands[p] = Cmd("wait", "h2d", a)
                /\ Copies("d2h", output.args[a]) <=>
                      \E p \in DOMAIN commands :
                          commands[p] = Cmd("wait", "d2h", a)

\* C24 witness: a single-shot with two host-to-device copies and one
\* device-to-host copy returned
SingleShotOrderedWitness ==
    /\ SingleShotReturned
    /\ Cardinality({p \in DOMAIN commands : commands[p].cmd = "h2d"}) >= 4
    /\ Cardinality({p \in DOMAIN commands : commands[p].cmd = "d2h"}) >= 2

\* the output payloads of validate that are bound
OutputsBound ==
    {n \in {"A1out", "B1out", "A2out", "B2out"} : pay[n] # NoPayload}

\* the output payloads bound when validate is at d, if it runs A1, B1, A2,
\* B2 in this order
BoundBefore(d) ==
    CASE d = "v_run_A1" -> {}
      [] d = "v_run_B1" -> {"A1out"}
      [] d = "v_run_A2" -> {"A1out", "B1out"}
      [] d = "v_run_B2" -> {"A1out", "B1out", "A2out"}
      [] d = "v_assert" -> {"A1out", "B1out", "A2out", "B2out"}

\* C25: validate makes no single-shot before the input constraints are
\* checked, and E_BAD_DRIVER is raised with no run made; if they hold and no
\* run fails, exactly four single-shots are made, on A1, B1, A2, B2 in this
\* order, before the outputs are looked at.
ValidateRunsInOrder ==
    /\ dpc \in {"v_create_A", "v_create_B", "v_regen", "v_pre"} =>
          /\ nrun = 0 /\ rpc = "idle"
          /\ commands = <<>>
          /\ OutputsBound = {}
          /\ wgsizes = <<>> /\ transfers = <<>> /\ runtimes = <<>>
    /\ dpc \in {"v_run_A1", "v_run_B1", "v_run_A2", "v_run_B2", "v_assert"} =>
          /\ InputConstraints(pay) = "ok"
          /\ OutputsBound = BoundBefore(dpc)
          /\ Len(runtimes) = Cardinality(BoundBefore(dpc))
          /\ nrun = Cardinality(BoundBefore(dpc))
                    + (IF rpc = "idle" THEN 0 ELSE 1)
          /\ vresult = "none"
    /\ vresult = "E_BAD_DRIVER" =>
          /\ InputConstraints(pay) = "E_BAD_DRIVER"
          /\ OutputsBound = {}
          /\ (entry = "validate" \/ dpc = "p_create") =>
                nrun = 0 /\ runtimes = <<>>
    /\ vresult \in {"ok", "E_NO_OUTPUTS", "E_NONDETERMINISTIC",
                    "E_INPUT_INSENSITIVE"} =>
          /\ OutputsBound = {"A1out", "B1out", "A2out", "B2out"}
          /\ nrun >= 4
          /\ (entry = "validate" => nrun = 4 /\ Len(runtimes) = 4)
          /\ vresult = OutputConstraints(pay, prototype)

\* C25 witness: the input constraints held, four single-shots were made and
\* validate is about to look at the outputs
ValidateRunsInOrderWitness ==
    /\ dpc = "v_assert"
    /\ nrun = 4
    /\ Len(prototype) >= 2

\* a single-shot has made its copies back and is about to return output
AboutToReturn == rpc = "record"

\* validate passed the E_NO_OUTPUTS assertions
PastNoOutputs ==
    vresult \in {"ok", "E_NONDETERMINISTIC", "E_INPUT_INSENSITIVE"}

\* C26: validate returns normally only for a kernel with a non-const,
\* non-local pointer argument; for a kernel without one every output payload
\* equals its input payload, validate never gets past the E_NO_OUTPUTS
\* assertions, and the guard of the input-sensitivity check is true whenever
\* the check is reached.
NoOutputWithoutWritablePointer ==
    /\ (vresult = "ok" => HasOutputBuffer)
    /\ (~HasOutputBuffer /\ AboutToReturn) =>
          PayloadEq(output, pay[Calls[dpc].input])
    /\ (~HasOutputBuffer => ~PastNoOutputs)
    /\ (PastNoOutputs => AnyNonConst(prototype))

\* the part that holds: the same, with the equality of output and input only
\* for the kernels that have no __local pointer either
NoOutputWithoutPointer ==
    /\ (vresult = "ok" => HasOutputBuffer)
    /\ (~HasOutputBuffer /\ CountLocal(prototype) = 0 /\ AboutToReturn) =>
          PayloadEq(output, pay[Calls[dpc].input])
    /\ (CountLocal(prototype) > 0 /\ AboutToReturn) =>
          ~PayloadEq(output, pay[Calls[dpc].input])
    /\ (~HasOutputBuffer => ~PastNoOutputs)
    /\ (PastNoOutputs => AnyNonConst(prototype))

-----------------------------------------------------------------------------
(* The atomizer GreedyAtomizer.from_text returns, run on its own corpus.   *)

\* C27: the atomizer from_text(T) returns never raises VocabError on T, and
\* its tokens for T are the tokens of the seeded atomizer for T, although
\* its vocabulary has fewer multi-character atoms.
InducedVocabularyClosed ==
    (mode = "greedy" /\ stage = "induced") =>
        /\ ret # VocabError
        /\ ret.kind = "ok" =>
              /\ Tokenize(decoder, ret.val) = tokens
              /\ emitted = tokens
              /\ tokens = LongestMatchTokens(SeededVocab, text, 0)
        /\ Multichars(vocab) \subseteq Multichars(SeededVocab)
        /\ Cardinality(Multichars(vocab)) < Cardinality(Multichars(SeededVocab))

\* C27 witness: the induced atomizer returned for a corpus with a
\* multi-character token and a single character that heads seeded atoms
InducedVocabularyClosedWitness ==
    /\ mode = "greedy" /\ stage = "induced"
    /\ ret.kind = "ok"
    /\ Len(tokens) >= 2
    /\ \E k \in DOMAIN tokens : Len(tokens[k]) > 1
    /\ \E k \in DOMAIN tokens :
          /\ Len(tokens[k]) = 1
          /\ tokens[k][1] \in DOMAIN SeededLookup
          /\ SeededLookup[tokens[k][1]] # {}

-----------------------------------------------------------------------------
(* The measurement vectors of the driver.                                  *)

\* a step in which a single-shot ends with an exception
SingleShotFails ==
    /\ rpc \in {"h2d", "set_args", "launch", "d2h"}
    /\ rpc' = "idle"

\* the exception a step raises
RaisedIn ==
    IF vresult' # vresult THEN vresult' ELSE result'

\* C29: the workgroup sizes, the transfer sizes and the runtimes have the
\* same length in every reachable state; a single-shot that returns adds
\* exactly one entry to each, and a single-shot that fails, with E_BAD_ARGS
\* from the binding of the arguments or with E_BAD_PROFILE from an event,
\* leaves the three as they were.
VectorsInStep ==
    /\ [](/\ Len(wgsizes) = Len(transfers)
          /\ Len(transfers) = Len(runtimes)
          /\ Len(runtimes) <= nrun)
    /\ [][/\ (rpc = "record" /\ rpc' = "idle") =>
                /\ Len(wgsizes') = Len(wgsizes) + 1
                /\ Len(transfers') = Len(transfers) + 1
                /\ Len(runtimes') = Len(runtimes) + 1
                /\ SubSeq(wgsizes', 1, Len(wgsizes)) = wgsizes
                /\ SubSeq(transfers', 1, Len(transfers)) = transfers
                /\ SubSeq(runtimes', 1, Len(runtimes)) = runtimes
          /\ SingleShotFails =>
                /\ UNCHANGED <<wgsizes, transfers, runtimes>>
                /\ RaisedIn = IF rpc = "set_args" THEN "E_BAD_ARGS"
                              ELSE "E_BAD_PROFILE"
          /\ (rpc \in {"h2d", "set_args", "launch", "d2h"}) =>
                UNCHANGED <<wgsizes, transfers, runtimes>>]_vars

\* C29 witness: a single-shot failed after another one had returned
VectorsInStepWitness ==
    /\ Len(runtimes) >= 1
    /\ Len(wgsizes) = Len(runtimes) /\ Len(transfers) = Len(runtimes)
    /\ commands # <<>>
    /\ commands[Len(commands)].op = "raise"
    /\ rpc = "idle"

-----------------------------------------------------------------------------
(* The single-shot and the payload it is given.                            *)

\* the payload a single-shot under way was given
GivenPayload == pay[Calls[dpc].input]

\* q has the context, the ndrange and the transfersize of p, and none of its
\* host arrays
ClonedFrom(q, p) ==
    /\ q.ctx = p.ctx
    /\ q.ndrange = p.ndrange
    /\ q.transfersize = p.transfersize
    /\ Len(q.args) = Len(p.args)
    /\ HostIds(q) \cap HostIds(p) = {}

\* C28: a single-shot works on a deep clone of the payload it is given: no
\* step of it changes that payload, or any other payload than the one it
\* returns, and the payload returned has the context, the ndrange and the
\* transfersize of the payload given and shares no host array with it.
InputUntouched ==
    /\ [](rpc # "idle" =>
            /\ ClonedFrom(output, GivenPayload)
            /\ HostIds(output) \cap Live(pay) = {})
    /\ [](\A r \in {"v_run_A1", "v_run_B1", "v_run_A2", "v_run_B2"} :
            pay[Calls[r].output] # NoPayload =>
                ClonedFrom(pay[Calls[r].output], pay[Calls[r].input]))
    /\ [][rpc # "idle" =>
            \A n \in PayloadNames :
                pay'[n] # pay[n] =>
                    /\ rpc = "record"
                    /\ dpc # "p_loop"
                    /\ n = Calls[dpc].output
                    /\ n # Calls[dpc].input
                    /\ pay'[n] = output]_vars

\* C28 witness: the kernel wrote to a buffer, the buffer was copied back to
\* the host array of the clone, and the single-shot is about to return
InputUntouchedWitness ==
    /\ rpc = "record"
    /\ HostIds(output) # {}
    /\ \E k \in DOMAIN output.args :
          /\ ~output.args[k].hostdata.isnone
          /\ output.args[k].hostdata.data # GivenPayload.args[k].hostdata.data

\* the payloads there are: those bound to the variables of validate and
\* profile, and the clone a single-shot works on
ReachedPayloads ==
    ({pay[n] : n \in PayloadNames} \cup {output}) \ {NoPayload}

\* an argument holds what its descriptor asks for: a host array exactly if
\* it is a pointer and not __local; for a __local pointer a LocalMemory of
\* bufsize bytes; for a scalar a value on the device side
ShapedAs(arg, desc) ==
    /\ arg.desc = desc
    /\ ~arg.hostdata.isnone <=> (desc.is_pointer /\ ~desc.is_local)
    /\ (desc.is_pointer /\ desc.is_local) =>
          /\ arg.devdata.kind = "local"
          /\ arg.devdata.size = arg.bufsize
          /\ arg.bufsize = 8 * size * desc.vector_width
    /\ (desc.is_pointer /\ ~desc.is_local) =>
          /\ arg.devdata.kind = "buffer"
          /\ Len(arg.hostdata.data) = size * desc.vector_width
    /\ ~desc.is_pointer =>
          /\ arg.devdata.kind = "scalar"
          /\ arg.devdata.value = Num(size)

\* the LocalMemory objects of q are new ones of the sizes of those of p
ScratchRecreated(q, p) ==
    \A k \in DOMAIN p.args :
        p.args[k].devdata.kind = "local" =>
            /\ q.args[k].devdata.kind = "local"
            /\ q.args[k].bufsize = p.args[k].bufsize
            /\ q.args[k].devdata.size = p.args[k].devdata.size
            /\ q.args[k].devdata.id # p.args[k].devdata.id

\* C30: in every payload made by create_sequential, create_random, a clone
\* or a single-shot, an argument has a host array if and only if it is a
\* pointer and not __local; a __local pointer has only a scratch allocation
\* of bufsize bytes, which a clone makes anew at the same size, and a scalar
\* has only a value on the device side.
HostDataIffGlobalPointer ==
    /\ \A p \in ReachedPayloads :
          /\ Len(p.args) = Len(prototype)
          /\ \A k \in DOMAIN p.args : ShapedAs(p.args[k], prototype[k])
    /\ rpc # "idle" => ScratchRecreated(output, GivenPayload)
    /\ pay.A2in # NoPayload => ScratchRecreated(pay.A2in, pay.A1in)
    /\ pay.B2in # NoPayload => ScratchRecreated(pay.B2in, pay.B1in)

\* C30 witness: a single-shot is about to return a payload with a host array
\* and a scratch allocation
HostDataIffGlobalPointerWitness ==
    /\ rpc = "record"
    /\ \E k \in DOMAIN output.args : ~output.args[k].hostdata.isnone
    /\ \E k \in DOMAIN output.args : output.args[k].devdata.kind = "local"

-----------------------------------------------------------------------------
(* Termination of GreedyAtomizer.atomize, checked under FairScanSpec.      *)

\* the scan is in its loop
Scanning == apc \in {"scan", "shrink"}

\* what is left to do: the characters after the anchor first (the anchor
\* can end beyond the end of the text, when the slice text[i:j] of a match
\* was cut at the end); at an anchor, the extension comes before the
\* shrinking; the extension is bounded by the end of the text and the
\* shrinking by the anchor
Remaining ==
    IF ~Scanning THEN 0
    ELSE LET width == 4 * Len(text) + 8
         IN  1 + (IF i < Len(text) THEN Len(text) - i ELSE 0) * width
               + (IF apc = "scan"
                  THEN 2 * Len(text) + 4
                       + (IF j <= Len(text) THEN Len(text) + 1 - j ELSE 0)
                  ELSE (IF j > i THEN j - i ELSE 0))

\* C31: atomize terminates on every text and vocabulary: at the top of the
\* loop j >= i + 2; an iteration of the loop advances the anchor by at least
\* one, or increases j while j <= len(text), or raises VocabError; every
\* step brings the scan nearer to its end, and the scan ends.
ScanTerminates ==
    /\ []((apc = "scan") => (j >= i + 2 /\ j <= 2 * Len(text) + 2))
    /\ []((apc = "shrink") =>
            (i < Len(text) /\ j >= i + 1 /\ j <= 2 * Len(text) + 2))
    /\ [][(apc = "scan" /\ apc' # "shrink") =>
             \/ i' >= i + 1
             \/ i' = i /\ j' = j + 1 /\ j <= Len(text)
             \/ ret' = VocabError
             \/ i >= Len(text) /\ ret' = Returned(indices)]_vars
    /\ [][(apc = "shrink" /\ apc' = "scan") => i' >= i + 1]_vars
    /\ [][Scanning => Remaining' < Remaining]_vars
    /\ (Scanning ~> (apc = "atomized" /\ ret # NoResult))

\* C31 witness: the scan ended after the trial end had run past the end of
\* the text at an anchor that heads an atom, and the shrinking had to bring
\* it back
ScanTerminatesWitness ==
    /\ apc = "atomized" /\ ret.kind = "ok"
    /\ j > Len(text) + 2
    /\ Len(emitted) >= 2
    /\ Len(emitted[Len(emitted)]) > 1

====
